---- MODULE Spec2Model ----
(***************************************************************************)
(* Trading session and decision-execution engine of katon:                 *)
(*   AIStrategyPanel (updateAnalysis, executeAutomatedDexTrade,            *)
(*   executeManualTrade, start/stop mutations) and Web3Service             *)
(*   (getAddress, executeAISwap).                                          *)
(*                                                                         *)
(* Every asynchronous function is cut at its awaits: one action per        *)
(* resumption.  A task record is one invocation of updateAnalysis (a       *)
(* decision cycle) or of executeManualTrade; its pc names the await it is  *)
(* suspended at.  Values a JavaScript closure captured when it was created *)
(* are fields of the task (or timerFunds for the armed interval), so a     *)
(* later change of the React state is not seen by a running task.         *)
(* Display-only state (logs, toasts, isError, analysis) is left out; the   *)
(* error a task's catch block handled is kept in the task's err field and  *)
(* the error toggleAutoTrading showed in lastError.  The wallet is taken   *)
(* to be connected (isConnected), as the session controls require.         *)
(*                                                                         *)
(* The strategy handlers (toggleStrategy, the risk-level effect, the       *)
(* Memecoin switch) share no state with the session and have their own     *)
(* specification, StrategySpec; SessionSpec is the session handlers with   *)
(* the session the backend may already hold when the page loads.           *)
(*                                                                         *)
(* Amounts are decimal numbers with AmountDigits fractional digits, held   *)
(* as an integer count of 10^-AmountDigits units, plus the class "big" for *)
(* a number >= 1e21.  Strings are sequences of one-character strings and a *)
(* BigNumber is its canonical decimal digit sequence.                      *)
(***************************************************************************)
EXTENDS Integers, Sequences, FiniteSets, TLC

VARIABLES
  isAutoTrading,    \* React state isAutoTrading
  sessionId,        \* React state sessionId (0 is null)
  allocatedFunds,   \* React state allocatedFunds, in whole USDC
  pendingDecision,  \* React state pendingDecision: index of the task owning the decision object, 0 is null
  timerFunds,       \* allocatedFunds as captured by the updateAnalysis closure the interval was armed with
  tasks,            \* every invocation of updateAnalysis / executeManualTrade, finished ones included,
                    \* each with the call of web3Service.executeAISwap it made
  trades,           \* the trade store behind POST /api/trades
  isTestMode,       \* Web3Service.isTestMode
  aiWallet,         \* Web3Service.aiWallets has an entry for the user
  backend,          \* the trading session /api/trading holds for the user: "none", "active", "inactive"
  lastError,        \* the last error toggleAutoTrading logged and showed
  store,            \* the strategy registry behind /api/strategies: enabled flag of each strategy
  strategies,       \* React-query data ['strategies']: the enabled flags as last fetched
  requests,         \* PATCH /api/strategies/{id} requests in flight
  riskLevel,        \* React state riskLevel
  isMemeStrategyEnabled,  \* React state isMemeStrategyEnabled
  memeId,           \* id of the registry strategy named "Memecoin Bracket Orders", 0 if there is none
  lastEvent,        \* history: "toggleOff" / "risk" after a toggleStrategy(id, false) from a
                    \* Switch / a risk-level change, "other" after any other handler
  rsiPrices,        \* calculateRSI: the argument prices
  rsiPeriods,       \* calculateRSI: the argument periods
  rsi,              \* calculateRSI: the value returned
  dipChain,         \* buyOnPriceDip: params.chainId is "base"
  dipPriceChange,   \* buyOnPriceDip: priceChange of the pair fetchPairData returns
  dipResult,        \* buyOnPriceDip: what the call did
  signer,           \* Web3Service.signer is set
  aiWallets,        \* Web3Service.aiWallets: the AI wallet address of each user, 0 if none
  aiWalletSigners,  \* Web3Service.aiWalletSigners: the address of each user's cached signer, 0 if none
  storage,          \* localStorage 'aiWallets'
  minted,           \* the number of wallets ethers.Wallet.createRandom made for AI wallets
  svcCall,          \* history: the last call of a Web3Service method and its result
  addrCall          \* the call of Web3Service.getAddress under way or last made

sessionVars == <<isAutoTrading, sessionId, allocatedFunds, pendingDecision,
                 timerFunds, tasks, trades, isTestMode, aiWallet, backend, lastError>>

strategyVars == <<store, strategies, requests, riskLevel, isMemeStrategyEnabled,
                  memeId, lastEvent>>

analysisVars == <<rsiPrices, rsiPeriods, rsi>>

dipVars == <<dipChain, dipPriceChange, dipResult>>

serviceVars == <<signer, aiWallets, aiWalletSigners, storage, minted, svcCall, addrCall>>

vars == <<isAutoTrading, sessionId, allocatedFunds, pendingDecision,
          timerFunds, tasks, trades, isTestMode, aiWallet, backend, lastError,
          store, strategies, requests, riskLevel, isMemeStrategyEnabled,
          memeId, lastEvent, rsiPrices, rsiPeriods, rsi,
          dipChain, dipPriceChange, dipResult,
          signer, aiWallets, aiWalletSigners, storage, minted, svcCall, addrCall>>

----------------------------------------------------------------------------
(* Bounds *)

MaxTasks == 2
MaxExecTasks == 2
NumStrategies == 3
MaxSessionTasks == 1
MaxPrices == 5
MaxTimeframes == 2
MaxWallets == 2
AmountDigits == 7

(* Program constants *)

TokenDecimals == 18
ConfidenceThreshold == 70
DefaultPeriods == 14
NeutralRSI == 50
DipThreshold == -6666
ConnectAttempts == 3

Unit == 10 ^ AmountDigits

MinBuyAmount == 5 * Unit
MinSellAmount == (5 * Unit) \div 1000
PrecisionFloor == Unit \div 10000
SciThreshold == Unit \div 1000000

----------------------------------------------------------------------------
(* Strings and numbers *)

DigitChars == <<"0", "1", "2", "3", "4", "5", "6", "7", "8", "9">>

IsDigit(c) == \E k \in 1..10 : DigitChars[k] = c

Zeros(k) == [j \in 1..k |-> "0"]

RECURSIVE NatToStr(_)
NatToStr(n) ==
  IF n < 10 THEN <<DigitChars[n + 1]>>
  ELSE NatToStr(n \div 10) \o <<DigitChars[(n % 10) + 1]>>

PadLeft(s, len) == IF Len(s) >= len THEN s ELSE Zeros(len - Len(s)) \o s

RECURSIVE StripTrailingZeros(_)
StripTrailingZeros(s) ==
  IF Len(s) > 0 /\ s[Len(s)] = "0" THEN StripTrailingZeros(SubSeq(s, 1, Len(s) - 1))
  ELSE s

RECURSIVE StripLeadingZeros(_)
StripLeadingZeros(s) ==
  IF Len(s) > 1 /\ s[1] = "0" THEN StripLeadingZeros(Tail(s))
  ELSE s

Includes(s, sub) ==
  \E k \in 1..(Len(s) - Len(sub) + 1) : SubSeq(s, k, k + Len(sub) - 1) = sub

Num(v) == [cls |-> "num", v |-> v]
Big == [cls |-> "big", v |-> 0]

\* a < b for a JavaScript number a and a finite model number b
NumLess(a, b) == a.cls = "num" /\ a.v < b

\* Number.prototype.toString: exponent form below 1e-6 and from 1e21 on
NumToString(a) ==
  IF a.cls = "big" THEN <<"1", "e", "+", "2", "1">>
  ELSE IF a.v = 0 THEN <<"0">>
  ELSE IF a.v < SciThreshold
    THEN LET ds == NatToStr(a.v)
             m  == StripTrailingZeros(ds)
             ex == AmountDigits - (Len(ds) - 1)
         IN  (IF Len(m) = 1 THEN m ELSE <<m[1], ".">> \o Tail(m))
               \o <<"e", "-">> \o NatToStr(ex)
  ELSE LET whole == NatToStr(a.v \div Unit)
           frac  == StripTrailingZeros(PadLeft(NatToStr(a.v % Unit), AmountDigits))
       IN  IF Len(frac) = 0 THEN whole ELSE whole \o <<".">> \o frac

\* Number.prototype.toFixed(digits): String(x) from 1e21 on
ToFixed(a, digits) ==
  IF a.cls = "big" THEN NumToString(a)
  ELSE NatToStr(a.v \div Unit) \o <<".">>
         \o PadLeft(NatToStr(a.v % Unit), AmountDigits)
         \o Zeros(digits - AmountDigits)

\* /^[0-9]+(\.[0-9]+)?$/
MatchesAmountFormat(s) ==
  \/ Len(s) > 0 /\ \A k \in 1..Len(s) : IsDigit(s[k])
  \/ \E d \in 2..(Len(s) - 1) :
        /\ s[d] = "."
        /\ \A k \in 1..Len(s) : k # d => IsDigit(s[k])

\* ethers.utils.parseUnits(value, decimals): the BigNumber as a digit
\* sequence, or ok = FALSE where ethers throws
ParseUnits(s, decimals) ==
  LET dots == {k \in 1..Len(s) : s[k] = "."}
  IN  IF Len(s) = 0 \/ \E k \in 1..Len(s) : ~IsDigit(s[k]) /\ s[k] # "."
        THEN [ok |-> FALSE, val |-> <<>>]
      ELSE IF Cardinality(dots) > 1 \/ s = <<".">>
        THEN [ok |-> FALSE, val |-> <<>>]
      ELSE LET d     == IF dots = {} THEN Len(s) + 1 ELSE CHOOSE k \in dots : TRUE
               w0    == SubSeq(s, 1, d - 1)
               f0    == SubSeq(s, d + 1, Len(s))
               whole == IF Len(w0) = 0 THEN <<"0">> ELSE w0
               frac  == StripTrailingZeros(IF Len(f0) = 0 THEN <<"0">> ELSE f0)
           IN  IF Len(frac) > decimals
                 THEN [ok |-> FALSE, val |-> <<>>]
               ELSE [ok  |-> TRUE,
                     val |-> StripLeadingZeros(whole \o frac \o Zeros(decimals - Len(frac)))]

BigZero == <<"0">>

\* BigNumber.lt on canonical digit sequences
BigLt(x, y) ==
  \/ Len(x) < Len(y)
  \/ /\ Len(x) = Len(y)
     /\ \E k \in 1..Len(x) :
          /\ \A j \in 1..(k - 1) : x[j] = y[j]
          /\ \E p, q \in 1..10 : DigitChars[p] = x[k] /\ DigitChars[q] = y[k] /\ p < q

----------------------------------------------------------------------------
(* Web3Service.executeAISwap *)

NoValue == "undefined"

SupportedTokens == {"WETH", "WBTC", "USDC", "USDT"}

SwapFailure(reason) ==
  [success |-> FALSE, txHash |-> NoValue, outputAmount |-> NoValue, error |-> reason]

SwapSuccess(out) ==
  [success |-> TRUE, txHash |-> "0xhash", outputAmount |-> out, error |-> NoValue]

\* getAIWalletSigner: the cached signer, or one made for the registered address
GetAIWalletSigner(hasWallet) == hasWallet

ExecuteAISwap(testMode, hasWallet, tokenIn, tokenOut, amountIn) ==
  IF ~GetAIWalletSigner(hasWallet) THEN SwapFailure("AI wallet not available")
  ELSE IF testMode THEN
    IF amountIn = BigZero THEN SwapFailure("Amount too small to process safely")
    ELSE LET threshold == ParseUnits(<<"0", ".", "0", "0", "0", "1">>, 1)
         IN  IF ~threshold.ok THEN SwapFailure("Error in AI test swap")
             ELSE IF BigLt(amountIn, threshold.val)
               THEN SwapFailure("Amount too small to process safely")
             ELSE IF tokenIn \notin SupportedTokens \/ tokenOut \notin SupportedTokens
               THEN SwapFailure("Error in AI test swap")
             ELSE SwapSuccess("0.98*amountIn")
  ELSE SwapSuccess("1.0")

----------------------------------------------------------------------------
(* executeAutomatedDexTrade, the synchronous stretch between the          *)
(* resolution of getAddress and the call of executeAISwap                 *)

FloorAmountBuyOnly(action, amount) ==
  IF action = "BUY" /\ NumLess(amount, MinBuyAmount) THEN Num(MinBuyAmount)
  ELSE amount

\* the minimum-amount floor of the BUY and of the SELL branch
FloorAmount(action, amount) ==
  IF action = "BUY" /\ NumLess(amount, MinBuyAmount) THEN Num(MinBuyAmount)
  ELSE IF action = "SELL" /\ NumLess(amount, MinSellAmount) THEN Num(MinSellAmount)
  ELSE amount

Throw(msg) == [throws |-> TRUE, error |-> msg, tokenIn |-> NoValue, tokenOut |-> NoValue, amountIn |-> <<>>]

Call(tin, tout, amt) == [throws |-> FALSE, error |-> NoValue, tokenIn |-> tin, tokenOut |-> tout, amountIn |-> amt]

AmountTooSmallAtFloor(amount) ==
  Includes(NumToString(amount), <<"e", "-">>) \/ NumLess(amount, MinSellAmount + 1)

\* the SELL branch's guard against extremely small values
AmountTooSmall(amount) ==
  Includes(NumToString(amount), <<"e", "-">>) \/ NumLess(amount, PrecisionFloor)

\* amount is the decision's amount after FloorAmount
PrepareSwap(action, amount) ==
  IF action = "BUY" THEN
    LET parsed == ParseUnits(ToFixed(amount, TokenDecimals), TokenDecimals)
    IN  IF ~parsed.ok THEN Throw("invalid decimal value")
        ELSE Call("USDC", "WBTC", parsed.val)
  ELSE
    IF AmountTooSmall(amount) THEN Throw("Amount too small to execute trade safely")
    ELSE IF Includes(NumToString(amount), <<"e">>)
      THEN Throw("Cannot safely process amount in scientific notation")
    ELSE LET amountString == ToFixed(amount, TokenDecimals)
             parsed       == ParseUnits(amountString, TokenDecimals)
         IN  IF ~MatchesAmountFormat(amountString)
               THEN Throw("Invalid amount format")
             ELSE IF ~parsed.ok THEN Throw("invalid decimal value")
             ELSE Call("WBTC", "USDC", parsed.val)

SwapAcceptedAlways(result) == result = result

\* result.success && result.txHash
SwapAccepted(result) == result.success /\ result.txHash # NoValue

SwapErrorGeneric(result) == "Trade failed"

\* result.error || "Trade failed"
SwapError(result) ==
  IF result.error = NoValue \/ result.error = "" THEN "Trade failed" ELSE result.error

\* result.outputAmount || "0"
OutputAmount(result) ==
  IF result.outputAmount = NoValue \/ result.outputAmount = "" THEN "0"
  ELSE result.outputAmount

ConfidenceMetInclusive(confidence) == confidence >= ConfidenceThreshold

\* dexDecision.confidence > 0.7, confidences in percent
ConfidenceMet(confidence) == confidence > ConfidenceThreshold

----------------------------------------------------------------------------
(* Inputs *)

Confidences == {50, ConfidenceThreshold, 85}

\* 3e-7, 0.00005, 0.002, 0.005, 3, 5, 7.3 and a number >= 1e21
Amounts ==
  { Num(3 * (Unit \div 10000000)), Num(5 * (Unit \div 100000)),
    Num(2 * (Unit \div 1000)), Num(MinSellAmount),
    Num(3 * Unit), Num(MinBuyAmount), Num((73 * Unit) \div 10), Big }

\* what generateDexTradingDecision may resolve to
Decisions ==
  [action : {"BUY", "SELL"}, amount : Amounts, confidence : Confidences]
    \cup [action : {"HOLD"}, amount : {Num(0)}, confidence : Confidences]

\* the decisions of the session specification: every action, a confidence
\* at and one above the threshold, the amount 3 (below the BUY floor, above
\* the SELL floor)
SessionDecisions ==
  {d \in Decisions : /\ d.amount \in {Num(0), Num(3 * Unit)}
                     /\ d.confidence >= ConfidenceThreshold}

FundsValues == {0, 1000}

OracleOutcomes == {"ok", "apierror", "nokey"}

----------------------------------------------------------------------------
(* Tasks *)

NoDecision == [action |-> "NONE", amount |-> Num(0), confidence |-> 0, orig |-> Num(0),
               sized |-> 0]

NoBody == [tokenAId |-> 0, tokenBId |-> 0, amountA |-> <<>>, amountB |-> NoValue]

NoResult == SwapFailure(NoValue)

Users == {"0xUser", "0xOther"}

\* the user whose AI wallet the session variables speak of
MainUser == "0xUser"

\* an AI wallet address stored by an earlier visit or handed to
\* registerAIWallet; the addresses ethers.Wallet.createRandom makes are
\* 1, 2, ... in the order of creation: every one new (a repeated random
\* address is not modelled)
StoredAddress == 100

NoAddress == 0

TestAddress == "0xTestAddress"

SignerAddress == "0xSigner"

NullAddress == "null"

\* a token of the input switch, one of the output switch, one of neither
TokenInputs == {"WETH", "USDC", "DAI"}

AmountInputs == {BigZero, <<"5", "0", "0", "0", "0", "0", "0">>}

EmptyMap == [u \in Users |-> NoAddress]

HasAIWalletNever(map, user) == FALSE

\* this.aiWallets.get(userAddress) is set
HasAIWallet(map, user) == map[user] # NoAddress

\* the last call of a Web3Service method: its arguments, what it returned
\* (addr for the wallet methods, swap for the swap methods), whether it
\* threw, whether it created a wallet; seq flips at every call
NoServiceCall ==
  [seq |-> 0, op |-> "none", user |-> NoValue, tokenIn |-> NoValue,
   tokenOut |-> NoValue, amountIn |-> <<>>, addr |-> NoAddress,
   swap |-> NoResult, threw |-> FALSE, created |-> FALSE]

ServiceCall(op, user, addr, threw, created) ==
  [NoServiceCall EXCEPT !.seq = 1 - svcCall.seq, !.op = op, !.user = user,
                        !.addr = addr, !.threw = threw, !.created = created]

SwapCall(op, user, tokenIn, tokenOut, amountIn, outcome) ==
  [NoServiceCall EXCEPT !.seq = 1 - svcCall.seq, !.op = op, !.user = user,
                        !.tokenIn = tokenIn, !.tokenOut = tokenOut,
                        !.amountIn = amountIn, !.swap = outcome.value,
                        !.threw = outcome.threw]

\* no call of getAddress under way; of a call: where it stands, the connect
\* attempts made, what the last connect() returned, the value resolved with
NoAddressCall == [pc |-> "idle", attempts |-> 0, connected |-> FALSE, result |-> NoValue]

AddressCall(pc, attempts, connected, result) ==
  [pc |-> pc, attempts |-> attempts, connected |-> connected, result |-> result]

\* a Web3Service just constructed over the stored AI wallets
ServiceIdle ==
  /\ signer = FALSE
  /\ aiWallets = [u \in Users |->
                    IF u = MainUser /\ aiWallet THEN StoredAddress ELSE NoAddress]
  /\ storage = aiWallets
  /\ aiWalletSigners = EmptyMap
  /\ minted = 0
  /\ svcCall = NoServiceCall
  /\ addrCall = NoAddressCall

\* no call of executeAISwap made
NoCall == [amountIn |-> <<>>, tokenIn |-> NoValue, tokenOut |-> NoValue,
           result |-> NoResult, active |-> FALSE, count |-> 0]

NewTask(kind, funds, ref, sess) ==
  [kind |-> kind, pc |-> "start", funds |-> funds, ref |-> ref, sess |-> sess,
   dec |-> NoDecision, execCount |-> 0, stopped |-> FALSE,
   call |-> NoCall, body |-> NoBody, rank |-> 0, err |-> NoValue]

InFlight(t) == t.pc # "done"

\* t has not yet sent the POST that records its trade
BeforeRecord(t) == t.pc \in {"oracle", "decide", "addr", "swap"}

\* the decision object task i executes
DecisionOf(T, i) == T[T[i].ref].dec

\* history: the tasks that called web3Service.executeAISwap
SwapCalls == {i \in DOMAIN tasks : tasks[i].call # NoCall}

\* task i ran to its end: its locals are dropped; the decision object, the
\* count of executor invocations, the swap call it made and the error it
\* caught are kept
Done(T, i, msg) ==
  [T EXCEPT ![i] = [NewTask(T[i].kind, 0, T[i].ref, 0) EXCEPT
                      !.pc = "done", !.dec = T[i].dec, !.call = T[i].call,
                      !.execCount = T[i].execCount, !.err = msg]]

\* an error reaches the catch block of updateAnalysis / executeManualTrade
Failed(T, i, msg) == Done(T, i, msg)

ReturnedAlwaysPosts(T, i) ==
  IF T[i].kind = "manual" THEN [T EXCEPT ![i].pc = "manualPost"]
  ELSE Done(T, i, NoValue)

\* executeAutomatedDexTrade returned normally to task i
Returned(T, i) ==
  IF T[i].kind = "manual" /\ T[i].sess # 0 THEN [T EXCEPT ![i].pc = "manualPost"]
  ELSE Done(T, i, NoValue)

PendingAfterReturnKept(T, i, pending) == pending

\* the pending slot once executeAutomatedDexTrade returned normally to task i
PendingAfterReturn(T, i, pending) ==
  IF T[i].kind = "manual" /\ T[i].sess = 0 THEN 0 ELSE pending

InvokeWithoutHoldCheck(T, i) == [T EXCEPT ![i].pc = "addr"]

\* executeAutomatedDexTrade(decision) up to its first await
Invoke(T, i) ==
  IF DecisionOf(T, i).action = "HOLD" THEN Returned(T, i)
  ELSE [T EXCEPT ![i].pc = "addr"]

PendingAfterInvoke(T, i, pending) ==
  IF DecisionOf(T, i).action = "HOLD" THEN PendingAfterReturn(T, i, pending)
  ELSE pending

----------------------------------------------------------------------------
(* updateAnalysis *)

\* updateAnalysis() up to the await of analyzeMarketConditions
BeginCycle(T, funds) ==
  Append(T, [NewTask("cycle", funds, Len(T) + 1, 0) EXCEPT !.pc = "oracle"])

TimerArmedUntilError(active, T) ==
  active /\ \A i \in DOMAIN T : T[i].err = NoValue

\* a tick runs a cycle for an Active session; the interval is replaced only
\* when isAutoTrading changes, nothing a cycle does clears it
TimerArmed(active, T) == active

TickUnguarded(maxTasks) ==
  /\ Len(tasks) < maxTasks
  /\ tasks' = BeginCycle(tasks, timerFunds)
  /\ UNCHANGED <<backend, lastError>>
  /\ UNCHANGED strategyVars
  /\ UNCHANGED analysisVars
  /\ UNCHANGED dipVars
  /\ UNCHANGED serviceVars
  /\ UNCHANGED <<isAutoTrading, sessionId, allocatedFunds, pendingDecision,
                 timerFunds, trades, isTestMode, aiWallet>>

\* setInterval(updateAnalysis, 60000) fires; the closure's isAutoTrading is
\* the current one, the effect re-arms the interval whenever it changes
Tick(maxTasks) ==
  /\ IF TimerArmed(isAutoTrading, tasks)
       THEN /\ Len(tasks) < maxTasks
            /\ tasks' = BeginCycle(tasks, timerFunds)
       ELSE UNCHANGED tasks
  /\ UNCHANGED <<backend, lastError>>
  /\ UNCHANGED strategyVars
  /\ UNCHANGED analysisVars
  /\ UNCHANGED dipVars
  /\ UNCHANGED serviceVars
  /\ UNCHANGED <<isAutoTrading, sessionId, allocatedFunds, pendingDecision,
                 timerFunds, trades, isTestMode, aiWallet>>

\* reasoning[0] of what analyzeMarketConditions returns; the two fallbacks
\* carry confidence 0 and action HOLD
FirstReasoning(outcome) ==
  CASE outcome = "nokey"    -> "API key not configured"
    [] outcome = "apierror" -> "API error occurred"
    [] OTHER                -> "analysis"

\* newAnalysis.confidence === 0 && newAnalysis.reasoning[0].includes("API key")
AnalysisUnavailable(outcome) ==
  /\ outcome \in {"nokey", "apierror"}
  /\ FirstReasoning(outcome) = "API key not configured"

\* analyzeMarketConditions resolves with the given outcome
OracleResult(i, outcome) ==
  /\ tasks[i].pc = "oracle"
  /\ IF AnalysisUnavailable(outcome)
       THEN tasks' = Done(tasks, i, "API key not configured")
     ELSE IF tasks[i].funds > 0
       THEN tasks' = [tasks EXCEPT ![i].pc = "decide"]
     ELSE tasks' = Done(tasks, i, NoValue)
  /\ UNCHANGED <<backend, lastError>>
  /\ UNCHANGED strategyVars
  /\ UNCHANGED analysisVars
  /\ UNCHANGED dipVars
  /\ UNCHANGED serviceVars
  /\ UNCHANGED <<isAutoTrading, sessionId, allocatedFunds, pendingDecision,
                 timerFunds, trades, isTestMode, aiWallet>>

\* analyzeMarketConditions resolves
OracleReturn(i) ==
  /\ tasks[i].pc = "oracle"
  /\ \E outcome \in OracleOutcomes : OracleResult(i, outcome)

SizingFundsCurrent(T, i, current) == current

\* the allocatedFunds argument of generateDexTradingDecision: the value the
\* closure of updateAnalysis holds, the one its funds check read
SizingFunds(T, i, current) == T[i].funds

\* generateDexTradingDecision resolves with d: store it, then gate
DecisionReturn(i, decisions) ==
  /\ tasks[i].pc = "decide"
  /\ \E d \in decisions :
       LET dec == [action |-> d.action, amount |-> d.amount,
                   confidence |-> d.confidence, orig |-> d.amount,
                   sized |-> SizingFunds(tasks, i, allocatedFunds)]
           T1  == [tasks EXCEPT ![i].dec = dec]
       IN  /\ pendingDecision' = i
           /\ tasks' = IF ConfidenceMet(d.confidence)
                          THEN Invoke([T1 EXCEPT ![i].execCount = @ + 1], i)
                          ELSE Done(T1, i, NoValue)
  /\ UNCHANGED <<backend, lastError>>
  /\ UNCHANGED strategyVars
  /\ UNCHANGED analysisVars
  /\ UNCHANGED dipVars
  /\ UNCHANGED serviceVars
  /\ UNCHANGED <<isAutoTrading, sessionId, allocatedFunds, timerFunds,
                 trades, isTestMode, aiWallet>>

\* generateDexTradingDecision rejects
DecisionThrows(i) ==
  /\ tasks[i].pc = "decide"
  /\ tasks' = Failed(tasks, i, "decision failed")
  /\ UNCHANGED <<backend, lastError>>
  /\ UNCHANGED strategyVars
  /\ UNCHANGED analysisVars
  /\ UNCHANGED dipVars
  /\ UNCHANGED serviceVars
  /\ UNCHANGED <<isAutoTrading, sessionId, allocatedFunds, pendingDecision,
                 timerFunds, trades, isTestMode, aiWallet>>

----------------------------------------------------------------------------
(* executeAutomatedDexTrade *)

\* Web3Service.getAddress: the test address, or the signer's address when
\* one is held or a connect attempt yields one and it answers
GetAddress(resolved) == isTestMode \/ resolved

IdentityFailureAfterFloor(T, i) ==
  Failed([T EXCEPT ![T[i].ref].dec.amount =
                      FloorAmount(DecisionOf(T, i).action, DecisionOf(T, i).amount)],
         i, "Wallet not connected")

\* if (!userAddress) throw new Error("Wallet not connected")
IdentityFailure(T, i) == Failed(T, i, "Wallet not connected")

\* getAddress resolves; floor, format, parse, and call executeAISwap
AddressReturn(i) ==
  /\ tasks[i].pc = "addr"
  /\ \E resolved \in BOOLEAN :
       IF ~GetAddress(resolved)
         THEN tasks' = IdentityFailure(tasks, i)
         ELSE LET d       == DecisionOf(tasks, i)
                  floored == FloorAmount(d.action, d.amount)
                  T1      == [tasks EXCEPT ![tasks[i].ref].dec.amount = floored]
                  prep    == PrepareSwap(d.action, floored)
                  result  == ExecuteAISwap(isTestMode, aiWallet,
                                           prep.tokenIn, prep.tokenOut, prep.amountIn)
              IN  IF prep.throws
                    THEN tasks' = Failed(T1, i, prep.error)
                    ELSE tasks' = [T1 EXCEPT ![i].pc = "swap",
                                             ![i].call =
                                                [amountIn |-> prep.amountIn,
                                                 tokenIn  |-> prep.tokenIn,
                                                 tokenOut |-> prep.tokenOut,
                                                 result   |-> result,
                                                 active   |-> isAutoTrading,
                                                 count    |-> tasks[i].call.count + 1]]
  /\ UNCHANGED <<backend, lastError>>
  /\ UNCHANGED strategyVars
  /\ UNCHANGED analysisVars
  /\ UNCHANGED dipVars
  /\ UNCHANGED serviceVars
  /\ UNCHANGED <<isAutoTrading, sessionId, allocatedFunds, pendingDecision,
                 timerFunds, trades, isTestMode, aiWallet>>

TradeBodyRequested(d, res) ==
  [tokenAId |-> IF d.action = "BUY" THEN 1 ELSE 2,
   tokenBId |-> IF d.action = "BUY" THEN 2 ELSE 1,
   amountA  |-> NumToString(d.orig),
   amountB  |-> OutputAmount(res)]

\* the body of POST /api/trades
TradeBody(d, res) ==
  [tokenAId |-> IF d.action = "BUY" THEN 1 ELSE 2,
   tokenBId |-> IF d.action = "BUY" THEN 2 ELSE 1,
   amountA  |-> NumToString(d.amount),
   amountB  |-> OutputAmount(res)]

\* history: the place of a swap confirmed now among the confirmed swaps,
\* those recorded and those whose POST /api/trades is in flight
ConfirmationRank(T, recorded) ==
  Len(recorded) + Cardinality({j \in DOMAIN T : T[j].pc = "post"}) + 1

\* executeAISwap resolves; on success post the trade
SwapReturn(i) ==
  /\ tasks[i].pc = "swap"
  /\ LET res == tasks[i].call.result
     IN  IF SwapAccepted(res)
           THEN tasks' = [tasks EXCEPT ![i].pc = "post",
                                       ![i].rank = ConfirmationRank(tasks, trades),
                                       ![i].body = TradeBody(DecisionOf(tasks, i), res)]
           ELSE tasks' = Failed(tasks, i, SwapError(res))
  /\ UNCHANGED <<backend, lastError>>
  /\ UNCHANGED strategyVars
  /\ UNCHANGED analysisVars
  /\ UNCHANGED dipVars
  /\ UNCHANGED serviceVars
  /\ UNCHANGED <<isAutoTrading, sessionId, allocatedFunds, pendingDecision,
                 timerFunds, trades, isTestMode, aiWallet>>

\* POST /api/trades resolves: the trade exists and the executor returns
PostReturn(i) ==
  /\ tasks[i].pc = "post"
  /\ trades' = Append(trades,
        [tokenAId |-> tasks[i].body.tokenAId, tokenBId |-> tasks[i].body.tokenBId,
         amountA |-> tasks[i].body.amountA, amountB |-> tasks[i].body.amountB,
         isAI |-> TRUE, task |-> i, stopped |-> tasks[i].stopped])
  /\ tasks' = Returned(tasks, i)
  /\ pendingDecision' = PendingAfterReturn(tasks, i, pendingDecision)
  /\ UNCHANGED <<backend, lastError>>
  /\ UNCHANGED strategyVars
  /\ UNCHANGED analysisVars
  /\ UNCHANGED dipVars
  /\ UNCHANGED serviceVars
  /\ UNCHANGED <<isAutoTrading, sessionId, allocatedFunds, timerFunds,
                 isTestMode, aiWallet>>

\* POST /api/trades rejects
PostFails(i) ==
  /\ tasks[i].pc = "post"
  /\ tasks' = Failed(tasks, i, "request failed")
  /\ UNCHANGED <<backend, lastError>>
  /\ UNCHANGED strategyVars
  /\ UNCHANGED analysisVars
  /\ UNCHANGED dipVars
  /\ UNCHANGED serviceVars
  /\ UNCHANGED <<isAutoTrading, sessionId, allocatedFunds, pendingDecision,
                 timerFunds, trades, isTestMode, aiWallet>>

----------------------------------------------------------------------------
(* executeManualTrade *)

\* executeManualTrade() with a pending decision, up to its first await
ExecuteManualTrade(maxTasks) ==
  /\ pendingDecision # 0
  /\ Len(tasks) < maxTasks
  /\ LET i  == Len(tasks) + 1
         T1 == Append(tasks, NewTask("manual", 0, pendingDecision, sessionId))
     IN  /\ tasks' = Invoke(T1, i)
         /\ pendingDecision' = PendingAfterInvoke(T1, i, pendingDecision)
  /\ UNCHANGED <<backend, lastError>>
  /\ UNCHANGED strategyVars
  /\ UNCHANGED analysisVars
  /\ UNCHANGED dipVars
  /\ UNCHANGED serviceVars
  /\ UNCHANGED <<isAutoTrading, sessionId, allocatedFunds, timerFunds,
                 trades, isTestMode, aiWallet>>

\* POST /api/trading/manual-trade resolves: clear the pending decision
ManualPostReturn(i) ==
  /\ tasks[i].pc = "manualPost"
  /\ \E ok \in BOOLEAN :
       IF ok THEN /\ tasks' = Done(tasks, i, NoValue)
                  /\ pendingDecision' = 0
             ELSE /\ tasks' = Failed(tasks, i, "request failed")
                  /\ UNCHANGED pendingDecision
  /\ UNCHANGED <<backend, lastError>>
  /\ UNCHANGED strategyVars
  /\ UNCHANGED analysisVars
  /\ UNCHANGED dipVars
  /\ UNCHANGED serviceVars
  /\ UNCHANGED <<isAutoTrading, sessionId, allocatedFunds, timerFunds,
                 trades, isTestMode, aiWallet>>

----------------------------------------------------------------------------
(* Session *)

StartAcceptedAlways(success) == success \/ ~success

\* response.success in onSuccess of startTradingMutation
StartAccepted(success) == success

StopAcceptedAlways(success) == success \/ ~success

\* response.success in onSuccess of stopTradingMutation
StopAccepted(success) == success

\* the effect on [isAutoTrading], run because isAutoTrading changed to
\* active: the interval is re-armed with the closure of this render, which
\* sees funds, and an active session runs a cycle at once
ArmInterval(active, funds, maxTasks) ==
  /\ timerFunds' = funds
  /\ IF active
       THEN /\ Len(tasks) < maxTasks
            /\ tasks' = BeginCycle(tasks, funds)
       ELSE UNCHANGED tasks

\* startTradingMutation, request and response: resolved is whether
\* getAddress finds a signer, selectedAIWallet whether an AI wallet was
\* selected, success the response's success flag
StartSession(maxTasks, resolved, selectedAIWallet, success) ==
  IF ~GetAddress(resolved)
    THEN UNCHANGED <<isAutoTrading, sessionId, tasks, timerFunds, aiWallet, backend>>
    ELSE /\ aiWallet' = (aiWallet \/ ~selectedAIWallet)
         /\ backend' = IF success THEN "active" ELSE backend
         /\ IF StartAccepted(success)
              THEN /\ sessionId' = 1
                   /\ isAutoTrading' = TRUE
                   /\ IF ~isAutoTrading
                        THEN ArmInterval(TRUE, allocatedFunds, maxTasks)
                        ELSE UNCHANGED <<tasks, timerFunds>>
              ELSE UNCHANGED <<isAutoTrading, sessionId, tasks, timerFunds>>

\* stopTradingMutation, request and response, with a sessionId held
StopSession(success) ==
  /\ backend' = IF success THEN "inactive" ELSE backend
  /\ IF StopAccepted(success)
       THEN /\ sessionId' = 0
            /\ isAutoTrading' = FALSE
            /\ timerFunds' = IF isAutoTrading THEN allocatedFunds ELSE timerFunds
            /\ tasks' = [k \in DOMAIN tasks |->
                           IF BeforeRecord(tasks[k]) THEN [tasks[k] EXCEPT !.stopped = TRUE]
                           ELSE tasks[k]]
       ELSE UNCHANGED <<sessionId, isAutoTrading, timerFunds, tasks>>

\* the Start Trading button of an idle session: toggleAutoTrading(true)
StartTrading(maxTasks) ==
  /\ ~isAutoTrading
  /\ \E resolved \in BOOLEAN, selectedAIWallet \in BOOLEAN, success \in BOOLEAN :
       StartSession(maxTasks, resolved, selectedAIWallet, success)
  /\ UNCHANGED <<allocatedFunds, pendingDecision, trades, isTestMode, lastError>>
  /\ UNCHANGED strategyVars
  /\ UNCHANGED analysisVars
  /\ UNCHANGED dipVars
  /\ UNCHANGED serviceVars

\* the Stop Trading button of an active session: toggleAutoTrading(false)
StopTrading ==
  /\ isAutoTrading
  /\ sessionId # 0
  /\ \E success \in BOOLEAN : StopSession(success)
  /\ UNCHANGED <<allocatedFunds, pendingDecision, trades, isTestMode, aiWallet, lastError>>
  /\ UNCHANGED strategyVars
  /\ UNCHANGED analysisVars
  /\ UNCHANGED dipVars
  /\ UNCHANGED serviceVars

\* toggleAutoTrading(enabled) with a connected wallet, with the error its
\* catch block logs and shows
ToggleAutoTrading(enabled, maxTasks) ==
  /\ IF enabled
       THEN \E resolved \in BOOLEAN, selectedAIWallet \in BOOLEAN, success \in BOOLEAN :
              /\ StartSession(maxTasks, resolved, selectedAIWallet, success)
              /\ lastError' = IF ~GetAddress(resolved) THEN "Could not get wallet address"
                              ELSE IF ~StartAccepted(success) THEN "Failed to start trading session"
                              ELSE lastError
       ELSE IF sessionId = 0
         THEN /\ lastError' = "No active trading session found"
              /\ UNCHANGED <<isAutoTrading, sessionId, tasks, timerFunds, aiWallet, backend>>
         ELSE \E success \in BOOLEAN :
                /\ StopSession(success)
                /\ lastError' = IF StopAccepted(success) THEN lastError
                                ELSE "Failed to stop trading session"
                /\ UNCHANGED aiWallet
  /\ UNCHANGED <<allocatedFunds, pendingDecision, trades, isTestMode>>
  /\ UNCHANGED strategyVars
  /\ UNCHANGED analysisVars
  /\ UNCHANGED dipVars
  /\ UNCHANGED serviceVars

SessionHeldAlways(id) == id = id

\* !sessionId is false
SessionHeld(id) == id # 0

\* updateAllocationMutation.mutate(amount), request and response; the
\* backend's amount reaches the state only through a later load
UpdateAllocation(amount) ==
  /\ IF ~SessionHeld(sessionId)
       THEN lastError' = "No active trading session found"
       ELSE \E success \in BOOLEAN :
              lastError' = IF success THEN lastError
                           ELSE "Failed to update session allocation"
  /\ UNCHANGED <<isAutoTrading, sessionId, allocatedFunds, pendingDecision,
                 timerFunds, tasks, trades, isTestMode, aiWallet, backend>>
  /\ UNCHANGED strategyVars
  /\ UNCHANGED analysisVars
  /\ UNCHANGED dipVars
  /\ UNCHANGED serviceVars

\* the ['trading-session'] query delivers the backend's session and the
\* effect on [activeSession] copies it into the state
LoadSession(maxTasks) ==
  /\ backend # "none"
  /\ sessionId' = 1
  /\ isAutoTrading' = (backend = "active")
  /\ \E amount \in FundsValues :
       /\ allocatedFunds' = amount
       /\ IF isAutoTrading' # isAutoTrading
            THEN ArmInterval(isAutoTrading', amount, maxTasks)
            ELSE UNCHANGED <<timerFunds, tasks>>
  /\ UNCHANGED <<pendingDecision, trades, isTestMode, aiWallet, backend, lastError>>
  /\ UNCHANGED strategyVars
  /\ UNCHANGED analysisVars
  /\ UNCHANGED dipVars
  /\ UNCHANGED serviceVars

\* the allocation input's onChange
SetAllocatedFunds ==
  /\ \E v \in FundsValues : allocatedFunds' = v
  /\ allocatedFunds' # allocatedFunds
  /\ UNCHANGED <<backend, lastError>>
  /\ UNCHANGED strategyVars
  /\ UNCHANGED analysisVars
  /\ UNCHANGED dipVars
  /\ UNCHANGED serviceVars
  /\ UNCHANGED <<isAutoTrading, sessionId, pendingDecision, timerFunds,
                 tasks, trades, isTestMode, aiWallet>>

\* connectWallet(true): Web3Service.createTestWallet switches to test mode
\* (and then fails on the missing saveAIWallet)
CreateTestWallet ==
  /\ ~isTestMode
  /\ isTestMode' = TRUE
  /\ signer' = TRUE
  /\ UNCHANGED <<backend, lastError>>
  /\ UNCHANGED strategyVars
  /\ UNCHANGED analysisVars
  /\ UNCHANGED dipVars
  /\ UNCHANGED <<aiWallets, aiWalletSigners, storage, minted, svcCall, addrCall>>
  /\ UNCHANGED <<isAutoTrading, sessionId, allocatedFunds, pendingDecision,
                 timerFunds, tasks, trades, aiWallet>>


----------------------------------------------------------------------------
(* Strategies: toggleStrategy, the risk-level effect, the Memecoin switch  *)
(*                                                                         *)
(* toggleStrategy sends its PATCH and awaits the response; the calls a     *)
(* forEach makes are not awaited, so every request of one handler is in    *)
(* flight when the handler yields.  Requests in flight are a set: the      *)
(* server may apply them in any order, and two equal requests have the     *)
(* effect of one.  Every PATCH is answered; a rejected one, which leaves    *)
(* the registry as it is, is not modelled.                                 *)

StrategyIds == 1..NumStrategies

\* strategy.riskLevel || 'medium' of the configured strategies: two of
\* medium risk, the others of high risk, none of low risk
StrategyRiskLevel(s) == IF s <= 2 THEN "medium" ELSE "high"

RiskLevels == {"low", "medium", "high"}

\* a PATCH { enabled } for strategy id; meme: the Memecoin switch awaits it
Req(id, enabled, meme) == [id |-> id, enabled |-> enabled, meme |-> meme]

\* lastEvent after a handler no property singles out
NoEvent == "other"

CascadeTargetsAlways(id, enabled, snapshot) ==
  {s \in StrategyIds : s # id /\ snapshot[s]}

\* the strategies toggleStrategy(id, enabled) disables first
CascadeTargets(id, enabled, snapshot) ==
  IF enabled THEN {s \in StrategyIds : s # id /\ snapshot[s]} ELSE {}

\* the requests of toggleStrategy(id, enabled), called with the snapshot
ToggleRequests(id, enabled, snapshot, meme) ==
  {Req(s, FALSE, FALSE) : s \in CascadeTargets(id, enabled, snapshot)}
    \cup {Req(id, enabled, meme)}

\* shouldBeVisible
ShouldBeVisible(risk, s) == StrategyRiskLevel(s) = risk

RECURSIVE RiskScan(_, _, _, _)
\* the forEach of the risk-level effect from strategy s on:
\* the strategies it calls toggleStrategy(id, false) for
RiskScan(risk, snapshot, s, foundEnabledStrategy) ==
  IF s > NumStrategies THEN {}
  ELSE IF ~ShouldBeVisible(risk, s) /\ snapshot[s]
    THEN {s} \cup RiskScan(risk, snapshot, s + 1, foundEnabledStrategy)
  ELSE IF ShouldBeVisible(risk, s) /\ snapshot[s]
    THEN IF foundEnabledStrategy
           THEN {s} \cup RiskScan(risk, snapshot, s + 1, TRUE)
           ELSE RiskScan(risk, snapshot, s + 1, TRUE)
  ELSE RiskScan(risk, snapshot, s + 1, foundEnabledStrategy)

RiskEffectTargetsMismatchOnly(risk, snapshot) ==
  {s \in StrategyIds : snapshot[s] /\ ~ShouldBeVisible(risk, s)}

\* the strategies the risk-level effect disables
RiskEffectTargets(risk, snapshot) == RiskScan(risk, snapshot, 1, FALSE)

\* the effect on [riskLevel, strategies]
RiskEffect(risk, snapshot, meme) ==
  /\ isMemeStrategyEnabled' = IF risk \in {"low", "medium"} THEN FALSE ELSE meme
  /\ requests' = requests \cup
                   {Req(s, FALSE, FALSE) : s \in RiskEffectTargets(risk, snapshot)}

\* the Switch of a listed strategy: toggleStrategy(strategy.id, checked)
ToggleStrategy(id, checked) ==
  /\ ShouldBeVisible(riskLevel, id)
  /\ checked = ~strategies[id]
  /\ requests' = requests \cup ToggleRequests(id, checked, strategies, FALSE)
  /\ lastEvent' = IF checked THEN NoEvent ELSE "toggleOff"
  /\ UNCHANGED <<store, strategies, riskLevel, isMemeStrategyEnabled, memeId>>
  /\ UNCHANGED sessionVars
  /\ UNCHANGED analysisVars
  /\ UNCHANGED dipVars
  /\ UNCHANGED serviceVars

\* the Memecoin Bracket Orders Switch
ToggleMeme(checked) ==
  /\ riskLevel = "high"
  /\ checked = ~isMemeStrategyEnabled
  /\ LET first == IF checked THEN {Req(s, FALSE, FALSE) : s \in {t \in StrategyIds : strategies[t]}}
                  ELSE {}
     IN  IF memeId # 0
           THEN /\ requests' = requests \cup first
                                 \cup ToggleRequests(memeId, checked, strategies, TRUE)
                /\ UNCHANGED isMemeStrategyEnabled
           ELSE /\ requests' = requests \cup first
                /\ isMemeStrategyEnabled' = checked
  /\ lastEvent' = NoEvent
  /\ UNCHANGED <<store, strategies, riskLevel, memeId>>
  /\ UNCHANGED sessionVars
  /\ UNCHANGED analysisVars
  /\ UNCHANGED dipVars
  /\ UNCHANGED serviceVars

\* setRiskLevel(level) and the effect it triggers
SetRiskLevel(level) ==
  /\ level # riskLevel
  /\ riskLevel' = level
  /\ RiskEffect(level, strategies, isMemeStrategyEnabled)
  /\ lastEvent' = "risk"
  /\ UNCHANGED <<store, strategies, memeId>>
  /\ UNCHANGED sessionVars
  /\ UNCHANGED analysisVars
  /\ UNCHANGED dipVars
  /\ UNCHANGED serviceVars

\* the ['strategies'] query refetches and the effect runs on the new data
Refetch ==
  /\ strategies # store
  /\ strategies' = store
  /\ RiskEffect(riskLevel, store, isMemeStrategyEnabled)
  /\ lastEvent' = NoEvent
  /\ UNCHANGED <<store, riskLevel, memeId>>
  /\ UNCHANGED sessionVars
  /\ UNCHANGED analysisVars
  /\ UNCHANGED dipVars
  /\ UNCHANGED serviceVars

\* the registry applies a PATCH { enabled } to one strategy
ApplyPatch(registry, r) == [registry EXCEPT ![r.id] = r.enabled]

\* a PATCH is answered; the Memecoin switch that awaited it sets its flag
PatchReturn(r) ==
  /\ r \in requests
  /\ store' = ApplyPatch(store, r)
  /\ requests' = requests \ {r}
  /\ isMemeStrategyEnabled' = IF r.meme THEN r.enabled ELSE isMemeStrategyEnabled
  /\ lastEvent' = NoEvent
  /\ UNCHANGED <<strategies, riskLevel, memeId>>
  /\ UNCHANGED sessionVars
  /\ UNCHANGED analysisVars
  /\ UNCHANGED dipVars
  /\ UNCHANGED serviceVars

----------------------------------------------------------------------------

\* the component's state after mount, before any wallet is connected
SessionInit ==
  /\ isAutoTrading = FALSE
  /\ sessionId = 0
  /\ allocatedFunds = 0
  /\ pendingDecision = 0
  /\ timerFunds = 0
  /\ tasks = <<>>
  /\ trades = <<>>
  /\ isTestMode = FALSE
  /\ aiWallet \in BOOLEAN
  /\ lastError = NoValue

\* a registry without an enabled strategy
NoStrategies ==
  /\ store = [s \in StrategyIds |-> FALSE]
  /\ strategies = store
  /\ requests = {}
  /\ riskLevel = "medium"
  /\ isMemeStrategyEnabled = FALSE
  /\ memeId = 0
  /\ lastEvent = NoEvent

\* no value returned yet
NotCalculated == [cls |-> "none", n |-> 0, d |-> 0]

\* what a call of buyOnPriceDip did, before the call
NotCalled ==
  [called |-> FALSE, threw |-> FALSE, dip |-> FALSE, priceChange |-> 0,
   swap |-> FALSE]

\* buyOnPriceDip not called
NoDip ==
  /\ dipChain = TRUE
  /\ dipPriceChange = <<>>
  /\ dipResult = NotCalled

\* calculateRSI not called
NoAnalysis ==
  /\ rsiPrices = <<>>
  /\ rsiPeriods = DefaultPeriods
  /\ rsi = NotCalculated

Init == SessionInit /\ backend = "none" /\ NoStrategies /\ NoAnalysis /\ NoDip /\ ServiceIdle

Next ==
  \/ Tick(MaxTasks)
  \/ \E i \in DOMAIN tasks : OracleReturn(i)
  \/ \E i \in DOMAIN tasks : DecisionReturn(i, SessionDecisions)
  \/ \E i \in DOMAIN tasks : AddressReturn(i)
  \/ \E i \in DOMAIN tasks : SwapReturn(i)
  \/ \E i \in DOMAIN tasks : PostReturn(i)
  \/ ExecuteManualTrade(MaxTasks)
  \/ \E i \in DOMAIN tasks : ManualPostReturn(i)
  \/ StartTrading(MaxTasks)
  \/ StopTrading
  \/ SetAllocatedFunds

Spec == Init /\ [][Next]_vars

\* the executor over every decision
ExecNext ==
  \/ StartTrading(MaxExecTasks)
  \/ \E i \in DOMAIN tasks : OracleReturn(i)
  \/ \E i \in DOMAIN tasks : DecisionReturn(i, Decisions)
  \/ \E i \in DOMAIN tasks : DecisionThrows(i)
  \/ \E i \in DOMAIN tasks : AddressReturn(i)
  \/ \E i \in DOMAIN tasks : SwapReturn(i)
  \/ \E i \in DOMAIN tasks : PostReturn(i)
  \/ \E i \in DOMAIN tasks : PostFails(i)
  \/ ExecuteManualTrade(MaxExecTasks)
  \/ \E i \in DOMAIN tasks : ManualPostReturn(i)
  \/ SetAllocatedFunds
  \/ CreateTestWallet

ExecSpec == Init /\ [][ExecNext]_vars

\* a registry with at most one enabled strategy, fetched, on which the
\* risk-level effect of the mount found nothing to disable
FetchedStrategies ==
  /\ store \in {f \in [StrategyIds -> BOOLEAN] :
                  /\ Cardinality({s \in StrategyIds : f[s]}) <= 1
                  /\ RiskEffectTargets("medium", f) = {}}
  /\ strategies = store
  /\ requests = {}
  /\ riskLevel = "medium"
  /\ isMemeStrategyEnabled = FALSE
  /\ memeId \in {0, NumStrategies}
  /\ lastEvent = NoEvent

StrategyNext ==
  \/ \E id \in StrategyIds, checked \in BOOLEAN : ToggleStrategy(id, checked)
  \/ \E checked \in BOOLEAN : ToggleMeme(checked)
  \/ \E level \in RiskLevels : SetRiskLevel(level)
  \/ Refetch
  \/ \E r \in requests : PatchReturn(r)

StrategyInit ==
  SessionInit /\ ~aiWallet /\ backend = "none" /\ FetchedStrategies /\ NoAnalysis /\ NoDip /\ ServiceIdle

StrategySpec == StrategyInit /\ [][StrategyNext]_vars

BackendStates == {"none", "active", "inactive"}

\* the session handlers, from a page load that may find a session of an
\* earlier visit
SessionNext ==
  \/ \E enabled \in BOOLEAN : ToggleAutoTrading(enabled, MaxSessionTasks)
  \/ LoadSession(MaxSessionTasks)
  \/ \E amount \in FundsValues : UpdateAllocation(amount)
  \/ SetAllocatedFunds
  \/ Tick(MaxSessionTasks)
  \/ \E i \in DOMAIN tasks : OracleReturn(i)
  \/ \E i \in DOMAIN tasks : DecisionReturn(i, SessionDecisions)
  \/ \E i \in DOMAIN tasks : AddressReturn(i)
  \/ \E i \in DOMAIN tasks : SwapReturn(i)
  \/ \E i \in DOMAIN tasks : PostReturn(i)

SessionLoadInit ==
  SessionInit /\ backend \in BackendStates /\ NoStrategies /\ NoAnalysis /\ NoDip /\ ServiceIdle

SessionSpec == SessionLoadInit /\ [][SessionNext]_vars


-----------------------------------------------------------------------------
(* calculateRSI *)

RECURSIVE Gcd(_, _)
Gcd(a, b) == IF b = 0 THEN a ELSE Gcd(b, a % b)

\* a JavaScript number that is a ratio n / d >= 0 of integers, in lowest
\* terms; rounding of the binary representation is not modelled
Fin(n, d) ==
  LET g == Gcd(n, d) IN [cls |-> "fin", n |-> n \div g, d |-> d \div g]

PosInf == [cls |-> "inf", n |-> 0, d |-> 0]

NaN == [cls |-> "nan", n |-> 0, d |-> 0]

\* (x * k + a) / periods for a finite x >= 0 and integers k, a >= 0
Smooth(x, k, a, periods) == Fin(x.n * k + a * x.d, x.d * periods)

\* x / y for finite x, y >= 0
Divide(x, y) ==
  IF y.n = 0 THEN (IF x.n = 0 THEN NaN ELSE PosInf)
  ELSE IF x.n = 0 THEN Fin(0, 1)
  ELSE LET g1 == Gcd(x.n, y.n)
           g2 == Gcd(y.d, x.d)
       IN  Fin((x.n \div g1) * (y.d \div g2), (x.d \div g2) * (y.n \div g1))

\* 100 - (100 / (1 + rs)) for rs >= 0, infinite or NaN
FromStrength(rs) ==
  CASE rs.cls = "nan" -> NaN
    [] rs.cls = "inf" -> Fin(100, 1)
    [] OTHER ->
         LET onePlus  == Fin(rs.n + rs.d, rs.d)
             quotient == Divide(Fin(100, 1), onePlus)
         IN  Fin(100 * quotient.d - quotient.n, quotient.d)

\* the first loop, from i on: gains and losses over differences 1 .. periods
\* (prices[k + 1] is the code's prices[k])
RECURSIVE SumDifferences(_, _, _, _)
SumDifferences(prices, i, periods, acc) ==
  IF i > periods THEN acc
  ELSE LET difference == prices[i + 1] - prices[i]
       IN  SumDifferences(prices, i + 1, periods,
             IF difference >= 0
               THEN [acc EXCEPT !.gains = @ + difference]
               ELSE [acc EXCEPT !.losses = @ - difference])

\* the second loop, from i on
RECURSIVE SmoothDifferences(_, _, _, _)
SmoothDifferences(prices, i, periods, avg) ==
  IF ~(i < Len(prices)) THEN avg
  ELSE LET difference == prices[i + 1] - prices[i]
       IN  SmoothDifferences(prices, i + 1, periods,
             IF difference >= 0
               THEN [avgGain |-> Smooth(avg.avgGain, periods - 1, difference, periods),
                     avgLoss |-> Smooth(avg.avgLoss, periods - 1, 0, periods)]
               ELSE [avgGain |-> Smooth(avg.avgGain, periods - 1, 0, periods),
                     avgLoss |-> Smooth(avg.avgLoss, periods - 1, 0 - difference, periods)])

CalculateRSIUnsmoothed(prices, periods) ==
  IF Len(prices) < periods + 1 THEN Fin(NeutralRSI, 1)
  ELSE LET sums == SumDifferences(prices, 1, periods, [gains |-> 0, losses |-> 0])
       IN  FromStrength(Divide(Fin(sums.gains, periods), Fin(sums.losses, periods)))

CalculateRSI(prices, periods) ==
  IF Len(prices) < periods + 1 THEN Fin(NeutralRSI, 1)
  ELSE LET sums == SumDifferences(prices, 1, periods, [gains |-> 0, losses |-> 0])
           avg  == SmoothDifferences(prices, periods + 1, periods,
                     [avgGain |-> Fin(sums.gains, periods),
                      avgLoss |-> Fin(sums.losses, periods)])
       IN  FromStrength(Divide(avg.avgGain, avg.avgLoss))

PriceValues == {1, 2, 4}

PeriodsValues == {2, 3, DefaultPeriods}

\* every history of up to MaxPrices prices
ShortHistories == UNION {[1 .. n -> PriceValues] : n \in 0 .. MaxPrices}

\* histories long enough for the default periods, which alternate between
\* two prices, rise, fall or zigzag
LongHistories ==
  UNION {
    {[k \in 1 .. n |-> IF k % 2 = 1 THEN a ELSE b] : a, b \in PriceValues}
    \cup {[k \in 1 .. n |-> k], [k \in 1 .. n |-> n + 1 - k],
          [k \in 1 .. n |-> ((k * k) % 5) + 1]}
    : n \in DefaultPeriods + 1 .. DefaultPeriods + MaxPrices - 2}

\* the calls: short histories with any periods, long ones with the default
RsiInputs ==
  (ShortHistories \X PeriodsValues) \cup (LongHistories \X {DefaultPeriods})

\* calculateRSI(prices, periods)
CallCalculateRSI ==
  /\ rsi = NotCalculated
  /\ rsi' = CalculateRSI(rsiPrices, rsiPeriods)
  /\ UNCHANGED <<rsiPrices, rsiPeriods>>
  /\ UNCHANGED sessionVars
  /\ UNCHANGED strategyVars
  /\ UNCHANGED dipVars
  /\ UNCHANGED serviceVars

RsiInit ==
  /\ SessionInit /\ ~aiWallet /\ backend = "none" /\ NoStrategies
  /\ NoDip
  /\ ServiceIdle
  /\ \E input \in RsiInputs :
       /\ rsiPrices = input[1]
       /\ rsiPeriods = input[2]
  /\ rsi = NotCalculated

RsiNext == CallCalculateRSI

RsiSpec == RsiInit /\ [][RsiNext]_vars

-----------------------------------------------------------------------------
(* buyOnPriceDip *)

\* keys of DexScreener's priceChange; h6 and d7 stand for any other key
Timeframes == {"m5", "h1", "h24", "h6", "d7"}

\* price changes in hundredths of a percent
PriceChanges == {-7000, DipThreshold, DipThreshold + 1, 0, 500}

\* a priceChange object: its entries in key order, no key twice
PriceChangeObjects ==
  UNION {{o \in [1 .. n -> Timeframes \X PriceChanges] :
            \A a, b \in 1 .. n : a # b => o[a][1] # o[b][1]}
         : n \in 0 .. MaxTimeframes}

\* pairData.priceChange is undefined
NoPriceChange == <<<<"undefined", 0>>>>

\* pairData.priceChange[key] !== undefined
Present(priceChange, key) == \E k \in DOMAIN priceChange : priceChange[k][1] = key

\* pairData.priceChange[key], key present
ValueAt(priceChange, key) ==
  priceChange[CHOOSE k \in DOMAIN priceChange : priceChange[k][1] = key][2]

\* key present with a value JavaScript takes for true
Truthy(priceChange, key) ==
  Present(priceChange, key) /\ ValueAt(priceChange, key) # 0

SelectPriceChangeTruthy(priceChange) ==
  IF Truthy(priceChange, "m5") THEN ValueAt(priceChange, "m5")
  ELSE IF Truthy(priceChange, "h1") THEN ValueAt(priceChange, "h1")
  ELSE IF Truthy(priceChange, "h24") THEN ValueAt(priceChange, "h24")
  ELSE IF Len(priceChange) > 0 THEN priceChange[1][2]
  ELSE 0

\* priceChangePercent after the if chain
SelectPriceChange(priceChange) ==
  IF Present(priceChange, "m5") THEN ValueAt(priceChange, "m5")
  ELSE IF Present(priceChange, "h1") THEN ValueAt(priceChange, "h1")
  ELSE IF Present(priceChange, "h24") THEN ValueAt(priceChange, "h24")
  ELSE IF Len(priceChange) > 0 THEN priceChange[1][2]
  ELSE 0

\* what a call of buyOnPriceDip did: returned or threw, the fields dip and
\* priceChange of the value returned, and whether it called
\* createSwapTransaction
DipOutcome(threw, dip, priceChange, swap) ==
  [called |-> TRUE, threw |-> threw, dip |-> dip, priceChange |-> priceChange,
   swap |-> swap]

\* buyOnPriceDip(params) on the Base chain, with the outcomes of
\* fetchPairData and createSwapTransaction
BuyOnPriceDip(chainSupported, fetched, priceChange, swapCreated) ==
  IF ~chainSupported \/ ~fetched THEN DipOutcome(TRUE, FALSE, 0, FALSE)
  ELSE IF priceChange = NoPriceChange THEN DipOutcome(FALSE, FALSE, 0, FALSE)
  ELSE LET priceChangePercent == SelectPriceChange(priceChange)
       IN  IF priceChangePercent <= DipThreshold
             THEN IF swapCreated
                    THEN DipOutcome(FALSE, TRUE, priceChangePercent, TRUE)
                    ELSE DipOutcome(TRUE, FALSE, 0, TRUE)
             ELSE DipOutcome(FALSE, FALSE, priceChangePercent, FALSE)

CallBuyOnPriceDip ==
  /\ ~dipResult.called
  /\ \E fetched, swapCreated \in BOOLEAN :
       dipResult' = BuyOnPriceDip(dipChain, fetched, dipPriceChange, swapCreated)
  /\ UNCHANGED <<dipChain, dipPriceChange>>
  /\ UNCHANGED sessionVars
  /\ UNCHANGED strategyVars
  /\ UNCHANGED analysisVars
  /\ UNCHANGED serviceVars

DipInit ==
  /\ SessionInit /\ ~aiWallet /\ backend = "none" /\ NoStrategies /\ NoAnalysis /\ ServiceIdle
  /\ dipChain \in BOOLEAN
  /\ dipPriceChange \in PriceChangeObjects \cup {NoPriceChange}
  /\ dipResult = NotCalled

DipNext == CallBuyOnPriceDip

DipSpec == DipInit /\ [][DipNext]_vars

-----------------------------------------------------------------------------
(* Web3Service: identity, AI wallets, swaps *)

\* new Web3Service(): loadAIWalletsFromStorage, no signer, no cached signers
NewService ==
  /\ addrCall.pc # "connect"
  /\ signer' = FALSE
  /\ isTestMode' = FALSE
  /\ aiWallets' = storage
  /\ aiWalletSigners' = EmptyMap
  /\ aiWallet' = HasAIWallet(storage, MainUser)
  /\ addrCall' = NoAddressCall
  /\ UNCHANGED <<storage, minted, svcCall>>
  /\ UNCHANGED <<isAutoTrading, sessionId, allocatedFunds, pendingDecision,
                 timerFunds, tasks, trades, backend, lastError>>
  /\ UNCHANGED strategyVars
  /\ UNCHANGED analysisVars
  /\ UNCHANGED dipVars

AttemptsExhaustedLate(i) == i >= ConnectAttempts + 1

\* the for loop ends: i < 3 is false
AttemptsExhausted(i) == i >= ConnectAttempts

\* the value getAddress resolves with when a signer is held: its address, or
\* null when signer.getAddress() rejects
SignerAnswers == {SignerAddress, NullAddress}

\* getAddress() up to its first await
GetAddressStart ==
  /\ addrCall.pc # "connect"
  /\ IF isTestMode
       THEN addrCall' = AddressCall("done", 0, FALSE, TestAddress)
     ELSE IF signer
       THEN \E answer \in SignerAnswers :
              addrCall' = AddressCall("done", 0, FALSE, answer)
     ELSE addrCall' = AddressCall("connect", 0, FALSE, NoValue)
  /\ UNCHANGED <<signer, aiWallets, aiWalletSigners, storage, minted, svcCall>>
  /\ UNCHANGED sessionVars
  /\ UNCHANGED strategyVars
  /\ UNCHANGED analysisVars
  /\ UNCHANGED dipVars

\* one pass of the loop of getAddress: connect() resolves. It yields a
\* signer ("ok"), fails before one is set ("rejected"), or sets one whose
\* getAddress() rejects, so that connect returns false ("unverified"); in
\* test mode it returns true and sets nothing
ConnectAttempt ==
  /\ addrCall.pc = "connect"
  /\ \E outcome \in {"ok", "rejected", "unverified"}, answer \in SignerAnswers :
       LET connected == isTestMode \/ outcome = "ok"
           held      == IF isTestMode THEN signer ELSE signer \/ outcome # "rejected"
           i         == addrCall.attempts + 1
       IN  /\ signer' = held
           /\ IF connected /\ held
                THEN addrCall' = AddressCall("done", i, TRUE, answer)
              ELSE IF AttemptsExhausted(i)
                THEN addrCall' = AddressCall("done", i, connected, NullAddress)
              ELSE addrCall' = AddressCall("connect", i, connected, NoValue)
  /\ UNCHANGED <<aiWallets, aiWalletSigners, storage, minted, svcCall>>
  /\ UNCHANGED sessionVars
  /\ UNCHANGED strategyVars
  /\ UNCHANGED analysisVars
  /\ UNCHANGED dipVars

\* getAIWalletSigner(user): the cached signer, else a signer newly made by
\* createRandom for a user with a registered address, else null; the
\* address of the signer returned, and the cache afterwards
AIWalletSigner(user, wallets, signers, fresh) ==
  IF user = "" THEN [addr |-> NoAddress, signers |-> signers, made |-> FALSE]
  ELSE IF signers[user] # NoAddress
    THEN [addr |-> signers[user], signers |-> signers, made |-> FALSE]
  ELSE IF wallets[user] = NoAddress
    THEN [addr |-> NoAddress, signers |-> signers, made |-> FALSE]
  ELSE [addr |-> fresh, signers |-> [signers EXCEPT ![user] = fresh], made |-> TRUE]

\* getAIWalletSigner(user)
CallGetAIWalletSigner(user) ==
  LET got == AIWalletSigner(user, aiWallets, aiWalletSigners, minted + 1)
  IN  /\ got.made => minted < MaxWallets
      /\ aiWalletSigners' = got.signers
      /\ minted' = IF got.made THEN minted + 1 ELSE minted
      /\ svcCall' = ServiceCall("getAIWalletSigner", user, got.addr, FALSE, got.made)
      /\ UNCHANGED <<signer, aiWallets, storage, addrCall>>
      /\ UNCHANGED sessionVars
      /\ UNCHANGED strategyVars
      /\ UNCHANGED analysisVars
      /\ UNCHANGED dipVars

\* getOrCreateAIWallet(user); in test mode the funding transaction of a new
\* wallet may reject after the wallet was stored
CallGetOrCreateAIWallet(user) ==
  /\ IF HasAIWallet(aiWallets, user)
       THEN /\ svcCall' = ServiceCall("getOrCreateAIWallet", user, aiWallets[user],
                                      FALSE, FALSE)
            /\ UNCHANGED <<aiWallets, aiWalletSigners, storage, minted, aiWallet>>
       ELSE /\ minted < MaxWallets
            /\ aiWallets' = [aiWallets EXCEPT ![user] = minted + 1]
            /\ aiWalletSigners' = [aiWalletSigners EXCEPT ![user] = minted + 1]
            /\ storage' = aiWallets'
            /\ minted' = minted + 1
            /\ aiWallet' = HasAIWallet(aiWallets', MainUser)
            /\ \E funded \in BOOLEAN :
                 svcCall' = IF isTestMode /\ ~funded
                              THEN ServiceCall("getOrCreateAIWallet", user, NoAddress,
                                               TRUE, TRUE)
                              ELSE ServiceCall("getOrCreateAIWallet", user, minted + 1,
                                               FALSE, TRUE)
  /\ UNCHANGED <<signer, addrCall>>
  /\ UNCHANGED <<isAutoTrading, sessionId, allocatedFunds, pendingDecision,
                 timerFunds, tasks, trades, isTestMode, backend, lastError>>
  /\ UNCHANGED strategyVars
  /\ UNCHANGED analysisVars
  /\ UNCHANGED dipVars

\* registerAIWallet(user, StoredAddress)
CallRegisterAIWallet(user) ==
  /\ aiWallets' = [aiWallets EXCEPT ![user] = StoredAddress]
  /\ storage' = aiWallets'
  /\ aiWallet' = HasAIWallet(aiWallets', MainUser)
  /\ svcCall' = ServiceCall("registerAIWallet", user, NoAddress, FALSE, FALSE)
  /\ UNCHANGED <<signer, aiWalletSigners, minted, addrCall>>
  /\ UNCHANGED <<isAutoTrading, sessionId, allocatedFunds, pendingDecision,
                 timerFunds, tasks, trades, isTestMode, backend, lastError>>
  /\ UNCHANGED strategyVars
  /\ UNCHANGED analysisVars
  /\ UNCHANGED dipVars

\* what the body of a swap method did: returned value, or threw message
Returns(value) == [threw |-> FALSE, value |-> value, message |-> NoValue]

Throws(message) == [threw |-> TRUE, value |-> NoResult, message |-> message]

Uncaught(outcome) == outcome

\* catch (error) { return { success: false, error: errorMessage } }
Caught(outcome) ==
  IF outcome.threw THEN Returns(SwapFailure(outcome.message)) ELSE outcome

\* what the collaborators of a real swap do: the address resolves or not,
\* getPrice yields a transaction or not, the transaction confirms or reverts
SwapEnvironments == {"ok", "noaddress", "noquote", "reverted"}

\* the simulated swap of executeSwap, inside its own try / catch
TestSwap(tokenIn, tokenOut, amountIn) ==
  IF amountIn = BigZero THEN SwapFailure("Amount too small to process safely")
  ELSE LET threshold == ParseUnits(<<"0", ".", "0", "0", "0", "1">>, 1)
       IN  IF ~threshold.ok THEN SwapFailure("Error in test swap")
           ELSE IF BigLt(amountIn, threshold.val)
             THEN SwapFailure("Amount too small to process safely")
           ELSE IF tokenIn \notin SupportedTokens \/ tokenOut \notin SupportedTokens
             THEN SwapFailure("Error in test swap")
           ELSE SwapSuccess("0.98*amountIn")

\* the try block of executeSwap
ExecuteSwapBody(testMode, hasSigner, tokenIn, tokenOut, amountIn, env) ==
  IF testMode THEN Returns(TestSwap(tokenIn, tokenOut, amountIn))
  ELSE IF ~hasSigner THEN Throws("Wallet not connected")
  ELSE IF tokenIn \notin SupportedTokens THEN Throws("Unsupported input token")
  ELSE IF tokenOut \notin SupportedTokens THEN Throws("Unsupported output token")
  ELSE IF env = "noaddress" THEN Throws("Could not get wallet address")
  ELSE IF env = "noquote" THEN Throws("Failed to get swap transaction")
  ELSE IF env = "reverted" THEN Throws("transaction failed")
  ELSE Returns(SwapSuccess("quoted"))

ExecuteSwap(testMode, hasSigner, tokenIn, tokenOut, amountIn, env) ==
  Caught(ExecuteSwapBody(testMode, hasSigner, tokenIn, tokenOut, amountIn, env))

\* executeSwap(tokenIn, tokenOut, amountIn, slippage)
CallExecuteSwap(tokenIn, tokenOut, amountIn) ==
  /\ \E env \in SwapEnvironments :
       svcCall' = SwapCall("executeSwap", NoValue, tokenIn, tokenOut, amountIn,
                    ExecuteSwap(isTestMode, signer, tokenIn, tokenOut, amountIn, env))
  /\ UNCHANGED <<signer, aiWallets, aiWalletSigners, storage, minted, addrCall>>
  /\ UNCHANGED sessionVars
  /\ UNCHANGED strategyVars
  /\ UNCHANGED analysisVars
  /\ UNCHANGED dipVars

\* executeAISwap(user, tokenIn, tokenOut, amountIn, slippage)
CallExecuteAISwap(user, tokenIn, tokenOut, amountIn) ==
  LET got == AIWalletSigner(user, aiWallets, aiWalletSigners, minted + 1)
  IN  /\ got.made => minted < MaxWallets
      /\ aiWalletSigners' = got.signers
      /\ minted' = IF got.made THEN minted + 1 ELSE minted
      /\ svcCall' = SwapCall("executeAISwap", user, tokenIn, tokenOut, amountIn,
                      Returns(ExecuteAISwap(isTestMode, got.addr # NoAddress,
                                            tokenIn, tokenOut, amountIn)))
      /\ UNCHANGED <<signer, aiWallets, storage, addrCall>>
      /\ UNCHANGED sessionVars
      /\ UNCHANGED strategyVars
      /\ UNCHANGED analysisVars
      /\ UNCHANGED dipVars

\* the AI wallet methods of a service, in real and in test mode
WalletInit ==
  SessionInit /\ backend = "none" /\ NoStrategies /\ NoAnalysis /\ NoDip
    /\ ServiceIdle

WalletNext ==
  \/ NewService
  \/ CreateTestWallet
  \/ \E user \in Users \cup {""} : CallGetAIWalletSigner(user)
  \/ \E user \in Users : CallGetOrCreateAIWallet(user)
  \/ \E user \in Users : CallRegisterAIWallet(user)

WalletSpec == WalletInit /\ [][WalletNext]_vars

\* identity resolution and the swap methods of a service whose AI wallets
\* are the stored ones
ServiceInit ==
  /\ SessionInit /\ backend = "none" /\ NoStrategies /\ NoAnalysis /\ NoDip
  /\ ServiceIdle

ServiceNext ==
  \/ NewService
  \/ CreateTestWallet
  \/ GetAddressStart
  \/ ConnectAttempt
  \/ \E tokenIn, tokenOut \in TokenInputs, amountIn \in AmountInputs :
       CallExecuteSwap(tokenIn, tokenOut, amountIn)
  \/ \E user \in Users, tokenIn, tokenOut \in TokenInputs, amountIn \in AmountInputs :
       CallExecuteAISwap(user, tokenIn, tokenOut, amountIn)

ServiceSpec == ServiceInit /\ [][ServiceNext]_vars

----------------------------------------------------------------------------
(* Properties *)

Cycles == {i \in DOMAIN tasks : tasks[i].kind = "cycle"}

\* the cycles that produced a Decision
Deciders == {i \in Cycles : tasks[i].dec # NoDecision}

\* the decision object a swap call was made for
CallDecision(i) == tasks[tasks[i].ref].dec

\* the BigNumber of a model amount of v units
BaseUnits(v) == StripLeadingZeros(NatToStr(v) \o Zeros(TokenDecimals - AmountDigits))

\* C1: a cycle that produced a Decision invoked the executor exactly once
\* if the confidence is above 0.70 and not at all otherwise (0.70 itself
\* does not execute); only such a cycle calls the swap provider itself.
C1_AutoExecutionGate ==
  \A i \in Deciders :
    /\ tasks[i].execCount = IF tasks[i].dec.confidence > 70 THEN 1 ELSE 0
    /\ tasks[i].call # NoCall => tasks[i].dec.confidence > 70

C1_Witness ==
  \E i, j \in Deciders :
    /\ tasks[i].dec.confidence > 70 /\ tasks[i].execCount = 1 /\ tasks[i].call # NoCall
    /\ tasks[j].dec.confidence = 70 /\ tasks[j].execCount = 0 /\ tasks[j].pc = "done"

\* C2: the pending slot only ever holds a Decision of confidence <= 0.70,
\* and no Decision is submitted to the swap provider both by its own cycle
\* and by executeManualTrade.
C2_PendingOnlyBelowThreshold ==
  /\ pendingDecision # 0 => tasks[pendingDecision].dec.confidence <= 70
  /\ ~ \E i, j \in SwapCalls :
         tasks[i].kind = "cycle" /\ tasks[j].kind = "manual" /\ tasks[j].ref = i

\* C3: at most one decision cycle is in flight at any time.
C3_SingleCycleInFlight ==
  Cardinality({i \in Cycles : InFlight(tasks[i])}) <= 1

\* C4: a decision cycle begins only in a step that leaves the session
\* Active; while the session is inactive a tick starts nothing and changes
\* neither the tasks, the pending slot nor the trades.
C4_NoCycleWhileInactive ==
  [][ /\ (\E i \in DOMAIN tasks' : i \notin DOMAIN tasks /\ tasks'[i].kind = "cycle")
         => isAutoTrading'
      /\ (~isAutoTrading /\ ~isAutoTrading')
         => \A i \in DOMAIN tasks' : i \in DOMAIN tasks \/ tasks'[i].kind = "manual"
    ]_vars

C4_Witness ==
  /\ ~isAutoTrading
  /\ sessionId = 0
  /\ \E i \in Cycles : tasks[i].stopped /\ InFlight(tasks[i])

\* C5: a cycle that was in flight when the session was stopped records no
\* Trade after the stop.
C5_StoppedCycleRecordsNoTrade ==
  \A k \in DOMAIN trades :
    tasks[trades[k].task].kind = "cycle" => ~trades[k].stopped

\* C6: every swap-provider call is made while the session is Active.
C6_NoSwapCallWhileStopped ==
  \A i \in SwapCalls : tasks[i].call.active

\* C7: a BUY of less than 5 is submitted as exactly 5, a SELL of less than
\* 0.005 as exactly 0.005, any other amount unchanged.
C7_MinimumAmountFloor ==
  \A i \in SwapCalls :
    LET d == CallDecision(i)
    IN  /\ d.orig.cls = "num"
        /\ tasks[i].call.amountIn =
             IF d.action = "BUY" /\ d.orig.v < 5 * Unit
               THEN <<"5">> \o Zeros(18)
             ELSE IF d.action = "SELL" /\ d.orig.v < (5 * Unit) \div 1000
               THEN <<"5">> \o Zeros(15)
             ELSE BaseUnits(d.orig.v)

C7_Witness ==
  \E i \in SwapCalls :
    /\ CallDecision(i).action = "SELL"
    /\ CallDecision(i).orig.v = 2 * (Unit \div 1000)
    /\ tasks[i].call.amountIn = <<"5">> \o Zeros(15)

\* a decision amount below 0.0001 or printed in scientific notation
BelowPrecision(a) ==
  a.cls = "big" \/ a.v < Unit \div 10000

\* C8 as stated: no decision whose amount is below 0.0001 or only
\* representable in scientific notation reaches the swap provider.
C8_PrecisionGuardRejects ==
  \A i \in SwapCalls : ~BelowPrecision(CallDecision(i).orig)

\* C8 as amended: the floor precedes the guard, so an amount below 0.0001
\* is raised to its floor and submitted, the amount-too-small error is
\* never raised, and an amount of 1e21 or more is never submitted.
C8_FloorPrecedesGuard ==
  /\ \A i \in SwapCalls :
       LET d == CallDecision(i)
       IN  /\ d.orig.cls = "num"
           /\ d.orig.v < Unit \div 10000 =>
                tasks[i].call.amountIn =
                  IF d.action = "BUY" THEN <<"5">> \o Zeros(18) ELSE <<"5">> \o Zeros(15)
  /\ \A i \in DOMAIN tasks : tasks[i].err # "Amount too small to execute trade safely"
  /\ \A i \in DOMAIN tasks :
       (tasks[i].pc \in {"swap", "post", "manualPost"} \/ tasks[i].call # NoCall)
         => CallDecision(i).orig.cls = "num"

C8_Witness ==
  \E i \in SwapCalls :
    /\ CallDecision(i).action = "SELL"
    /\ CallDecision(i).orig.cls = "num"
    /\ CallDecision(i).orig.v < Unit \div 1000000
    /\ tasks[i].pc = "done"
    /\ tasks[i].err = NoValue

\* C9: every Trade belongs to a swap call that returned success with a
\* transaction id, no two Trades to the same call, and a call that failed
\* or carried no transaction id has no Trade.
C9_TradeOnlyAfterSuccess ==
  /\ \A k \in DOMAIN trades :
       /\ trades[k].task \in SwapCalls
       /\ tasks[trades[k].task].call.result.success
       /\ tasks[trades[k].task].call.result.txHash # NoValue
  /\ \A k, l \in DOMAIN trades : trades[k].task = trades[l].task => k = l

C9_Witness ==
  /\ \E k \in DOMAIN trades : tasks[trades[k].task].call.result.success
  /\ \E i \in SwapCalls :
       /\ ~tasks[i].call.result.success
       /\ tasks[i].pc = "done"
       /\ \A k \in DOMAIN trades : trades[k].task # i

\* C10: a Trade carries the amount that was submitted (after any floor) as
\* amountA and the provider's output amount as amountB; amountB is "0" only
\* when the provider's result is "0" or carries no output amount.
C10_TradeAmountsRoundTrip ==
  \A k \in DOMAIN trades :
    LET c == tasks[trades[k].task].call
    IN  /\ ParseUnits(trades[k].amountA, 18) = [ok |-> TRUE, val |-> c.amountIn]
        /\ c.result.outputAmount # NoValue => trades[k].amountB = c.result.outputAmount
        /\ c.result.outputAmount = NoValue => trades[k].amountB = "0"

C10_Witness ==
  \E k \in DOMAIN trades :
    /\ CallDecision(trades[k].task).orig # CallDecision(trades[k].task).amount
    /\ trades[k].amountA = <<"0", ".", "0", "0", "5">>
    /\ trades[k].amountB = "1.0"

\* the strategies enabled in the registry
Enabled == {s \in StrategyIds : store[s]}

\* C14: once every request has been answered, at most one strategy is
\* enabled, whatever the interleaving of the toggle calls.
C14_OneEnabledAfterToggles ==
  requests = {} => Cardinality(Enabled) <= 1

\* C15: no state, intermediate ones included, has two enabled strategies.
C15_NeverTwoEnabled ==
  Cardinality(Enabled) <= 1

\* C16: once every request has been answered and fetched, the Memecoin flag and a
\* registry strategy other than the Memecoin one are not both enabled.
C16_MemecoinExclusive ==
  (requests = {} /\ strategies = store) =>
    ~(isMemeStrategyEnabled /\ \E s \in Enabled : s # memeId)

\* C17: a toggleStrategy(id, false) from a Switch issues at most one
\* request, a disable, and changes no enabled flag itself.
C17_DisableDoesNotCascade ==
  [][ lastEvent' = "toggleOff" =>
        /\ Cardinality(requests' \ requests) <= 1
        /\ \A r \in requests' \ requests : ~r.enabled /\ strategies[r.id]
        /\ store' = store
    ]_vars

C17_Witness ==
  /\ lastEvent = "toggleOff"
  /\ \E s, t \in StrategyIds :
       /\ s # t /\ strategies[s] /\ strategies[t]
       /\ Req(s, FALSE, FALSE) \in requests
       /\ Req(t, FALSE, FALSE) \notin requests

\* C18: a risk-level change issues a disable for exactly the enabled
\* strategies that do not match the new level or follow an enabled matching
\* strategy in list order, issues no enable and changes no flag itself.
C18_RiskChangeFirstEnabledWins ==
  [][ riskLevel' # riskLevel =>
        LET losers == {s \in StrategyIds :
                         /\ strategies[s]
                         /\ \/ StrategyRiskLevel(s) # riskLevel'
                            \/ \E t \in 1..(s - 1) :
                                 strategies[t] /\ StrategyRiskLevel(t) = riskLevel'}
        IN  /\ requests' = requests \cup {Req(s, FALSE, FALSE) : s \in losers}
            /\ store' = store
            /\ strategies' = strategies
    ]_vars

C18_Witness ==
  /\ lastEvent = "risk"
  /\ \E s, t \in StrategyIds :
       /\ s < t /\ strategies[s] /\ strategies[t]
       /\ StrategyRiskLevel(s) = riskLevel /\ StrategyRiskLevel(t) = riskLevel
       /\ Req(t, FALSE, FALSE) \in requests
       /\ Req(s, FALSE, FALSE) \notin requests

\* the trades recorded for task i
TradesOf(i) == {k \in DOMAIN trades : trades[k].task = i}

\* C11: an execution calls the swap provider at most once; when the
\* provider reported failure, the execution ended with the provider's reason
\* as its error and recorded no Trade.
C11_ProviderFailureNotRetried ==
  \A i \in SwapCalls :
    /\ tasks[i].call.count = 1
    /\ ~tasks[i].call.result.success =>
         /\ tasks[i].pc \in {"swap", "done"}
         /\ TradesOf(i) = {}
         /\ tasks[i].pc = "done" =>
              /\ tasks[i].call.result.error # NoValue
              /\ tasks[i].err = tasks[i].call.result.error

C11_Witness ==
  \E i \in SwapCalls :
    /\ tasks[i].pc = "done"
    /\ ~tasks[i].call.result.success
    /\ tasks[i].err = "AI wallet not available"
    /\ TradesOf(i) = {}

\* the invocations of executeAutomatedDexTrade with a HOLD decision
HoldExecutions ==
  {i \in DOMAIN tasks :
     /\ tasks[i].kind = "manual" \/ tasks[i].execCount > 0
     /\ DecisionOf(tasks, i).action = "HOLD"}

\* C12: executing a HOLD decision returns without error before the
\* identity is resolved: no floor, no swap-provider call, no Trade.
C12_HoldIsNoOp ==
  \A i \in HoldExecutions :
    /\ tasks[i].pc \in {"done", "manualPost"}
    /\ tasks[i].err \in {NoValue, "request failed"}
    /\ tasks[i].call = NoCall
    /\ DecisionOf(tasks, i).amount = DecisionOf(tasks, i).orig
    /\ TradesOf(i) = {}

C12_Witness ==
  /\ ~isTestMode
  /\ \E i \in HoldExecutions :
       /\ tasks[i].kind = "cycle" /\ tasks[i].execCount = 1
       /\ tasks[i].pc = "done" /\ tasks[i].err = NoValue
  /\ \E j \in HoldExecutions :
       /\ tasks[j].kind = "manual"
       /\ tasks[j].pc = "done" /\ tasks[j].err = NoValue

IdentityError(t) == t.err = "Wallet not connected"

\* C13: an execution that fails on the unresolved identity fails without
\* changing the decision's amount, calls no swap provider and records no
\* Trade.
C13_NoIdentityFailsFirst ==
  [][ \A i \in DOMAIN tasks :
        (IdentityError(tasks'[i]) /\ ~IdentityError(tasks[i])) =>
          /\ DecisionOf(tasks', i).amount = DecisionOf(tasks, i).amount
          /\ tasks'[i].call = NoCall
          /\ tasks'[i].pc = "done"
          /\ trades' = trades
          /\ TradesOf(i) = {}
    ]_vars

C13_Witness ==
  \E i \in DOMAIN tasks :
    /\ IdentityError(tasks[i])
    /\ DecisionOf(tasks, i).action = "BUY"
    /\ DecisionOf(tasks, i).orig.cls = "num"
    /\ DecisionOf(tasks, i).orig.v < 5 * Unit
    /\ DecisionOf(tasks, i).amount = DecisionOf(tasks, i).orig

StartErrors == {"Could not get wallet address", "Failed to start trading session"}

C21_UpdateAllocationKeepsActivity ==
  [][ /\ (lastError' # lastError /\ lastError' = "Failed to update session allocation") =>
           /\ sessionId # 0
           /\ UNCHANGED <<isAutoTrading, sessionId, backend, tasks, timerFunds, allocatedFunds>>
      /\ \A amount \in FundsValues :
           UpdateAllocation(amount) =>
             /\ UNCHANGED <<isAutoTrading, sessionId, backend>>
             /\ sessionId = 0 => lastError' = "No active trading session found"
    ]_vars

C21_Witness ==
  /\ lastError = "Failed to update session allocation"
  /\ isAutoTrading
  /\ sessionId # 0

\* C22: while the session stays Active its allocated funds stay > 0.
C22_ActiveFundsStayPositive ==
  [][ (isAutoTrading /\ isAutoTrading' /\ allocatedFunds > 0) => allocatedFunds' > 0 ]_vars

\* C23: when the oracle returns one of its two unavailability fallbacks
\* (credential missing, or the call failed) the cycle ends there in error:
\* no Decision, the pending slot untouched.
C23_UnavailableOracleEndsCycle ==
  [][ \A i \in DOMAIN tasks : \A outcome \in {"nokey", "apierror"} :
        OracleResult(i, outcome) =>
          /\ tasks'[i].pc = "done"
          /\ tasks'[i].err # NoValue
          /\ tasks'[i].dec = NoDecision
          /\ pendingDecision' = pendingDecision
    ]_vars

\* C24: a cycle goes on to generate a Decision only with allocated funds > 0
\* and an oracle answer that is not the failure fallback.
C24_DecisionNeedsOracleAndFunds ==
  [][ \A i \in DOMAIN tasks :
        (tasks[i].pc = "oracle" /\ tasks'[i].pc = "decide") =>
          /\ tasks[i].funds > 0
          /\ ~OracleResult(i, "apierror")
    ]_vars

\* C29: the amount a cycle sized its Decision for is the amount its funds
\* check read, and a change of the allocated funds changes nothing of any
\* cycle, execution or swap call.
C29_CycleUsesOneAllocation ==
  /\ [](\A i \in Deciders :
          /\ tasks[i].dec.sized > 0
          /\ InFlight(tasks[i]) => tasks[i].dec.sized = tasks[i].funds)
  /\ [][ allocatedFunds' # allocatedFunds => tasks' = tasks ]_vars

C29_Witness ==
  \E i \in Deciders :
    /\ tasks[i].pc = "swap"
    /\ tasks[i].call.active
    /\ allocatedFunds # tasks[i].dec.sized

\* the manual executions
Manuals == {j \in DOMAIN tasks : tasks[j].kind = "manual"}

\* C27: the pending slot is empty or holds the Decision of one cycle; a
\* cycle that generates a Decision puts it in the slot; a manual execution
\* that ends without error empties the slot and one that ends in error
\* leaves the slot as it was.
C27_PendingSlot ==
  /\ [](/\ pendingDecision \in 0 .. Len(tasks)
        /\ pendingDecision # 0 => pendingDecision \in Deciders)
  /\ [][ \A i \in DOMAIN tasks' :
           /\ (/\ i \in DOMAIN tasks
               /\ tasks[i].kind = "cycle"
               /\ tasks[i].dec = NoDecision
               /\ tasks'[i].dec # NoDecision) => pendingDecision' = i
           /\ (/\ tasks'[i].kind = "manual"
               /\ tasks'[i].pc = "done"
               /\ i \in DOMAIN tasks => tasks[i].pc # "done")
                => pendingDecision' = IF tasks'[i].err = NoValue THEN 0
                                      ELSE pendingDecision
       ]_vars

C27_Witness ==
  \E j \in Manuals :
    /\ tasks[j].pc = "done"
    /\ tasks[j].err = NoValue
    /\ TradesOf(j) # {}
    /\ pendingDecision = 0

\* C28: a manual execution starts only on a pending Decision and executes
\* that one; it posts the manual-trade record only with a sessionId held and
\* after the executor returned without error (its trade recorded, or HOLD),
\* and it ends without posting only on an error or without a sessionId.
C28_ManualTradeRecord ==
  [][ \A j \in DOMAIN tasks' :
        tasks'[j].kind = "manual" =>
          /\ j \notin DOMAIN tasks =>
               /\ pendingDecision # 0
               /\ tasks'[j].ref = pendingDecision
          /\ j \in DOMAIN tasks => tasks'[j].ref = tasks[j].ref
          /\ (/\ tasks'[j].pc = "manualPost"
              /\ j \in DOMAIN tasks => tasks[j].pc # "manualPost")
               => /\ tasks'[j].sess # 0
                  /\ tasks'[j].err = NoValue
                  /\ \/ DecisionOf(tasks', j).action = "HOLD"
                     \/ /\ j \in DOMAIN tasks
                        /\ tasks[j].pc = "post"
                        /\ trades' # trades
                        /\ trades'[Len(trades')].task = j
          /\ (/\ tasks'[j].pc = "done"
              /\ j \in DOMAIN tasks => tasks[j].pc \notin {"done", "manualPost"})
               => \/ tasks'[j].err # NoValue
                  \/ IF j \in DOMAIN tasks THEN tasks[j].sess = 0 ELSE sessionId = 0
    ]_vars

C28_Witness ==
  \E j \in Manuals :
    /\ tasks[j].pc = "manualPost"
    /\ tasks[j].sess # 0
    /\ TradesOf(j) # {}

\* C26: when the Trade of an execution is appended, no other execution
\* whose swap was confirmed earlier is still waiting for its Trade to be
\* recorded, so Trades are in the order of the confirmations.
C26_TradesInConfirmationOrder ==
  [][ \A i \in DOMAIN tasks :
        (/\ tasks[i].pc = "post"
         /\ Len(trades') = Len(trades) + 1
         /\ trades'[Len(trades')].task = i)
          => \A j \in DOMAIN tasks :
               tasks[j].pc = "post" => tasks[i].rank <= tasks[j].rank
    ]_vars

\* C25: a cycle that ends in error logs the error and changes neither the
\* session nor the timer; with a failed cycle behind it an Active session
\* still starts a new cycle at the next tick.
C25_FailedCycleKeepsSession ==
  /\ [][ \A i \in DOMAIN tasks :
           (/\ tasks[i].kind = "cycle"
            /\ tasks[i].pc # "done"
            /\ tasks'[i].pc = "done"
            /\ tasks'[i].err # NoValue)
             => UNCHANGED <<isAutoTrading, sessionId, timerFunds, backend,
                            allocatedFunds, pendingDecision, trades>>
       ]_vars
  /\ []((/\ isAutoTrading
         /\ Len(tasks) < MaxTasks
         /\ \E i \in Cycles : tasks[i].err # NoValue)
          => ENABLED (Tick(MaxTasks) /\ Len(tasks') = Len(tasks) + 1))

C25_Witness ==
  \E i, j \in Cycles :
    /\ i < j
    /\ tasks[i].err \in {"AI wallet not available", "Wallet not connected"}
    /\ tasks[j].pc = "oracle"
    /\ isAutoTrading

RECURSIVE Pow(_, _)
Pow(b, e) == IF e = 0 THEN 1 ELSE b * Pow(b, e - 1)

RECURSIVE SumOver(_, _)
SumOver(f, n) == IF n = 0 THEN 0 ELSE f[n] + SumOver(f, n - 1)

\* the gain (sign 1) or loss (sign -1) of the k-th difference of prices
Movement(prices, k, sign) ==
  LET difference == sign * (prices[k + 1] - prices[k])
  IN  IF difference > 0 THEN difference ELSE 0

\* periods^(m+1) times the Wilder average of the gains or losses of prices,
\* m being the number of differences after the first periods ones: the simple
\* average of the first periods movements decayed m times by
\* (periods - 1) / periods, plus each later movement over periods, decayed
\* once per difference after it
WilderScaled(prices, periods, sign) ==
  LET m == Len(prices) - 1 - periods
  IN  SumOver([k \in 1 .. periods |-> Movement(prices, k, sign)], periods)
        * Pow(periods - 1, m)
      + SumOver([j \in 1 .. m |-> Movement(prices, periods + j, sign)
                                  * Pow(periods, j) * Pow(periods - 1, m - j)], m)

\* C30: calculateRSI returns 50 for fewer than periods + 1 prices, and
\* otherwise 100 - 100 / (1 + avgGain / avgLoss) for the Wilder averages of
\* gains and losses, which is 100 * avgGain / (avgGain + avgLoss), 100 when
\* only avgLoss is 0 and NaN when both are 0.
C30_RsiValue ==
  rsi # NotCalculated =>
    IF Len(rsiPrices) < rsiPeriods + 1 THEN rsi = Fin(50, 1)
    ELSE LET G == WilderScaled(rsiPrices, rsiPeriods, 1)
             L == WilderScaled(rsiPrices, rsiPeriods, -1)
         IN  IF G + L = 0 THEN rsi = NaN
             ELSE rsi = Fin(100 * G, G + L)

C30_Witness ==
  /\ rsi # NotCalculated
  /\ rsiPeriods = DefaultPeriods
  /\ Len(rsiPrices) > DefaultPeriods + 1
  /\ rsi.cls = "fin"
  /\ rsi \notin {Fin(0, 1), Fin(50, 1), Fin(100, 1)}

\* prices rises (sign 1) or falls (sign -1) at every step
Monotone(prices, sign) ==
  \A k \in 1 .. Len(prices) - 1 : sign * (prices[k + 1] - prices[k]) > 0

\* C31: for at least periods + 1 prices calculateRSI returns a number in
\* [0, 100]: 100 for a strictly rising history, 0 for a strictly falling
\* one, and a number also for a flat one.
C31_RsiDefinedInRange ==
  (rsi # NotCalculated /\ Len(rsiPrices) >= rsiPeriods + 1) =>
    /\ rsi.cls = "fin"
    /\ rsi.n <= 100 * rsi.d
    /\ Monotone(rsiPrices, 1) => rsi = Fin(100, 1)
    /\ Monotone(rsiPrices, -1) => rsi = Fin(0, 1)

\* the calls of buyOnPriceDip that returned
DipReturned == dipResult.called /\ ~dipResult.threw

\* C38: a call of buyOnPriceDip that returns creates a swap transaction and
\* reports dip = true exactly when the selected price change is a drop of
\* more than 66.66 %, and neither when the pair has no price-change data.
C38_DipIffDropAboveThreshold ==
  DipReturned =>
    /\ dipResult.dip = dipResult.swap
    /\ dipResult.dip <=>
         /\ dipPriceChange # NoPriceChange
         /\ SelectPriceChange(dipPriceChange) < DipThreshold

\* the first of keys present in priceChange, "" if none is
RECURSIVE FirstPresent(_, _)
FirstPresent(priceChange, keys) ==
  IF keys = <<>> THEN ""
  ELSE IF \E k \in DOMAIN priceChange : priceChange[k][1] = Head(keys)
    THEN Head(keys)
  ELSE FirstPresent(priceChange, Tail(keys))

\* C39: the price change buyOnPriceDip reports and compares is that of m5
\* if present, else h1, else h24, else of the first key of priceChange, else
\* 0; a present value of 0 is used like any other.
C39_PriceChangePriority ==
  (DipReturned /\ dipPriceChange # NoPriceChange) =>
    LET keys  == <<"m5", "h1", "h24">>
                   \o [k \in DOMAIN dipPriceChange |-> dipPriceChange[k][1]]
        key   == FirstPresent(dipPriceChange, keys)
        value == IF key = "" THEN 0
                 ELSE LET k == CHOOSE k \in DOMAIN dipPriceChange :
                                 dipPriceChange[k][1] = key
                      IN  dipPriceChange[k][2]
    IN  /\ dipResult.priceChange = value
        /\ dipResult.dip => value <= DipThreshold
        /\ ~dipResult.dip => value > DipThreshold

C39_Witness ==
  /\ DipReturned
  /\ dipPriceChange # NoPriceChange
  /\ Present(dipPriceChange, "m5")
  /\ ValueAt(dipPriceChange, "m5") = 0
  /\ Present(dipPriceChange, "h1")
  /\ ValueAt(dipPriceChange, "h1") < DipThreshold
  /\ ~dipResult.dip
  /\ dipResult.priceChange = 0

\* C34: in a session that became Active with allocated funds > 0, the
\* allocated funds a starting cycle takes for its funds check and for sizing
\* its Decision are the session's allocated funds at that moment.
C34_CycleTakesCurrentFunds ==
  [][ \A i \in DOMAIN tasks' :
        (i \notin DOMAIN tasks /\ tasks'[i].kind = "cycle" /\ timerFunds > 0)
          => tasks'[i].funds = allocatedFunds
    ]_vars

\* a call of getOrCreateAIWallet for user returns in this step
GetOrCreateReturns(user) ==
  /\ svcCall'.seq # svcCall.seq
  /\ svcCall'.op = "getOrCreateAIWallet"
  /\ svcCall'.user = user

\* C36: getOrCreateAIWallet(user) for a user with an AI wallet address returns
\* that address, creates no wallet and leaves the address map as it was; for
\* a user without one it creates a wallet with a new address and stores it
\* under that user only.
C36_GetOrCreateIdempotent ==
  [][ \A user \in Users :
        GetOrCreateReturns(user) =>
          IF aiWallets[user] # NoAddress
            THEN /\ ~svcCall'.threw
                 /\ svcCall'.addr = aiWallets[user]
                 /\ ~svcCall'.created
                 /\ minted' = minted
                 /\ aiWallets' = aiWallets
                 /\ storage' = storage
            ELSE /\ svcCall'.created
                 /\ minted' = minted + 1
                 /\ aiWallets'[user] # NoAddress
                 /\ \A other \in Users : aiWallets'[user] # aiWallets[other]
                 /\ \A other \in Users \ {user} : aiWallets'[other] = aiWallets[other]
                 /\ storage' = aiWallets'
                 /\ ~svcCall'.threw => svcCall'.addr = aiWallets'[user]
    ]_vars

\* a later call returned the address of the wallet an earlier call created
C36_Witness ==
  /\ svcCall.op = "getOrCreateAIWallet"
  /\ ~svcCall.created
  /\ ~svcCall.threw
  /\ svcCall.addr \in 1..MaxWallets
  /\ svcCall.addr = aiWallets[svcCall.user]

\* C35: a signer that getAIWalletSigner(user) returns has the address
\* registered for that user in aiWallets.
C35_SignerMatchesRegisteredAddress ==
  [][ (/\ svcCall'.seq # svcCall.seq
       /\ svcCall'.op = "getAIWalletSigner"
       /\ svcCall'.addr # NoAddress)
        => svcCall'.addr = aiWallets'[svcCall'.user]
    ]_vars

\* a call of executeSwap or executeAISwap returns in this step
SwapReturns ==
  /\ svcCall'.seq # svcCall.seq
  /\ svcCall'.op \in {"executeSwap", "executeAISwap"}

\* C32: a call of executeSwap or executeAISwap whose input or output token is
\* not one of WETH, WBTC, USDC, USDT returns success = false and no
\* transaction id, in test mode and in real mode.
C32_UnsupportedTokenFails ==
  [][ (/\ SwapReturns
       /\ \/ svcCall'.tokenIn \notin SupportedTokens
          \/ svcCall'.tokenOut \notin SupportedTokens)
        => /\ ~svcCall'.threw
           /\ ~svcCall'.swap.success
           /\ svcCall'.swap.txHash = NoValue
    ]_vars

\* C37: a call of executeSwap or executeAISwap does not throw; it returns
\* success = true with a transaction id, or success = false with an error
\* reason. executeAISwap for a user without an AI wallet signer returns the
\* failure "AI wallet not available" and signs nothing; a swap in test mode
\* with amount 0 returns a failure.
C37_SwapsReturnResults ==
  [][ SwapReturns =>
        /\ ~svcCall'.threw
        /\ IF svcCall'.swap.success
             THEN svcCall'.swap.txHash # NoValue /\ svcCall'.swap.error = NoValue
             ELSE svcCall'.swap.txHash = NoValue /\ svcCall'.swap.error # NoValue
        /\ (/\ svcCall'.op = "executeAISwap"
            /\ aiWalletSigners[svcCall'.user] = NoAddress
            /\ aiWallets[svcCall'.user] = NoAddress)
             => /\ svcCall'.swap = SwapFailure("AI wallet not available")
                /\ UNCHANGED <<aiWalletSigners, minted>>
        /\ (isTestMode /\ svcCall'.amountIn = BigZero) => ~svcCall'.swap.success
    ]_vars

\* executeSwap returned the error thrown in real mode for a token outside
\* the output switch
C37_Witness ==
  /\ svcCall.op = "executeSwap"
  /\ ~svcCall.threw
  /\ svcCall.swap = SwapFailure("Unsupported output token")

\* C33: a call of getAddress makes at most ConnectAttempts attempts to
\* connect and none in test mode or with a signer held; it goes on to
\* another attempt only after one that did not yield a signer, and after the
\* last failed attempt it resolves with null; it resolves with the test
\* address in test mode when it starts there, and in every case with a value.
C33_BoundedConnectAttempts ==
  /\ [](/\ addrCall.attempts \in 0..ConnectAttempts
        /\ addrCall.pc = "connect" =>
             /\ addrCall.attempts < ConnectAttempts
             /\ ~(addrCall.connected /\ signer)
        /\ addrCall.pc = "done" =>
             /\ addrCall.result \in {TestAddress, SignerAddress, NullAddress}
             /\ (addrCall.attempts > 0 /\ ~addrCall.connected) =>
                  /\ addrCall.attempts = ConnectAttempts
                  /\ addrCall.result = NullAddress)
  /\ [][ /\ (addrCall.pc = "connect" /\ addrCall' # addrCall) =>
              addrCall'.attempts = addrCall.attempts + 1
         /\ (/\ addrCall.pc # "connect"
             /\ addrCall' # addrCall
             /\ addrCall'.pc # "idle"
             /\ isTestMode \/ signer) =>
              /\ addrCall'.pc = "done"
              /\ addrCall'.attempts = 0
              /\ isTestMode => addrCall'.result = TestAddress
         /\ (addrCall.pc # "connect" /\ addrCall'.pc = "connect") =>
              addrCall'.attempts = 0
     ]_vars

\* all the attempts of a call failed and it resolved with null
C33_Witness ==
  /\ addrCall.pc = "done"
  /\ addrCall.attempts = ConnectAttempts
  /\ ~addrCall.connected
  /\ addrCall.result = NullAddress

====
